---- MODULE Spec2Model ----
(***************************************************************************)
(* Model of the solution evaluator of oa-reminder                          *)
(* (src/services/evaluator.py).  One call of evaluate_solution is followed *)
(* step by step: language validation, sample resolution through the cache  *)
(* file, creation of the work directory, build, one run per sample and the *)
(* final aggregation.  Compiler, candidate process, network and file       *)
(* system are the environment: their outcomes are drawn from small sets.   *)
(*                                                                         *)
(* Spec follows one call over the requests, caches and outcomes above;     *)
(* SpecRuns follows the same call on sample lists of up to MaxRunSamples   *)
(* short samples, under weak fairness; SpecConc interleaves two calls over *)
(* the submissions directory; SpecNorm exercises _normalize on every text  *)
(* of up to MaxTextLen characters.                                         *)
(* SpecJava follows the call for Java sources, SpecVerdict for the         *)
(* requests that reach the sample loop.                                    *)
(*                                                                         *)
(* Around the evaluator: SpecFetch follows calls of fetch_mixed_problems   *)
(* (src/services/problem_fetcher.py) over the cache file, SpecRate the     *)
(* threads inside rate_limit, SpecShare the writers of the cache file, and *)
(* SpecHook the Telegram webhook handler (src/services/api_wrapper.py).    *)
(* SpecKeys follows GET /mixed-problems and a submission under each stored *)
(* key, SpecApi the handler of POST /evaluate around the evaluator's call, *)
(* SpecSitu calls of generate_situational_question and SpecGen the threads *)
(* inside get_generator (src/services/situational_gen.py).                 *)
(*                                                                         *)
(* A text is a sequence of one-character strings.                          *)
(***************************************************************************)
EXTENDS Integers, Sequences, FiniteSets, TLC

VARIABLES
    pc,          \* position of the call: idle, load, fetch_cf, fetch_lc, mktemp, build, run, returned, raised, blocked
    tag,         \* the language argument as passed by the caller
    qkey,        \* the qkey argument
    code,        \* the code argument
    language,    \* the local `language` after lines 320-324
    cacheFile,   \* contents of CACHE_FILE: last_selection and sample_cache
    cacheReads,  \* number of _load_cache calls made by the call
    cacheWrites, \* number of _save_cache calls that completed
    problem,     \* the local `problem`
    platform,    \* the local `platform`
    samples,     \* the local `samples`
    dirs,        \* directories that exist under SUBMISSIONS_DIR
    files,       \* files that exist under SUBMISSIONS_DIR, as <<directory, name>>
    tmpdir,      \* the local `tmpdir`
    class_name,  \* the local `class_name` of evaluate_java_solution
    spawned,     \* the processes started, in order
    idx,         \* loop index of the sample loop
    passed,      \* the local `passed`
    results,     \* the local `results`
    ret,         \* the dict returned to the caller
    exc,         \* the exception that escaped to the caller
    running,     \* processes started for the call that are still alive
    written,     \* the files _write_code_to_file wrote for the call, in order
    npc,         \* position of the normalizer exercise: idle, drawn, varied, normalized, renormalized
    text,        \* a text given to _normalize
    other,       \* a second text, derived from `text`
    edit,        \* how `other` was derived from `text`
    norm_text,   \* _normalize(text)
    norm_other,  \* _normalize(other)
    norm_twice,  \* _normalize(_normalize(text))
    calls,       \* the concurrent calls of evaluate_solution, each at lines 379-409
    owner,       \* for a file written by a concurrent call, the call that wrote it
    touched,     \* the file accesses of the concurrent calls
    fpc,         \* position of fetch_mixed_problems: idle, cf, lc, backup, final, returned
    count,       \* the argument `count` of fetch_mixed_problems
    problems,    \* the local `problems` of fetch_mixed_problems
    fetched_list, \* the list fetch_mixed_problems returned
    ncalls,      \* number of calls of fetch_mixed_problems made
    given,       \* names of the problems handed out since the history was last reset
    lastFetch,   \* the last single-platform fetch: candidates, selection, `given` before it
    hpc,         \* position of the webhook handler: idle, received, handled
    update,      \* the text of the Telegram message, as received
    composed,    \* the parts the sender composed the text from
    replies,     \* the messages the handler sent to the chat, in order
    payload,     \* the payloads posted to the evaluation webhook, in order
    now,         \* the clock, time.time(), in seconds
    LAST_REQUEST_TIME, \* the global of problem_fetcher.py
    threads,     \* the threads calling a fetcher, each inside rate_limit or its request
    requests,    \* the times at which outbound requests were issued, in order
    wpc,         \* position of each writer of the cache file: idle, loaded, saved
    snap,        \* the dict each writer loaded from the cache file
    wrote,       \* what each writer put into its dict before saving
    apc,         \* position of the handler of POST /evaluate: idle, validated, rejected, answered
    req,         \* the body of the request
    response,    \* the EvaluateResponse the handler returned
    spc,         \* position of generate_situational_question: idle, ai, bank, recent, store, returned
    history,     \* the local `history`
    question,    \* the local `question`
    source,      \* the local `source`
    attempt,     \* the AI attempts made, the loop variable of line 242
    attempts,    \* the local `attempts`
    scalls,      \* number of calls of generate_situational_question made
    generator,   \* the global `generator` of situational_gen.py: 0 is None
    callers,     \* the threads calling get_generator
    loads        \* the loads of the model, in order: "running", "ok" or "failed"

vars == <<pc, tag, qkey, code, language, cacheFile, cacheReads, cacheWrites,
          problem, platform, samples, dirs, files, tmpdir, class_name,
          spawned, idx, passed, results, ret, exc, running, written,
          npc, text, other, edit, norm_text, norm_other, norm_twice,
          calls, owner, touched,
          fpc, count, problems, fetched_list, ncalls, given, lastFetch,
          hpc, update, composed, replies, payload,
          now, LAST_REQUEST_TIME, threads, requests, wpc, snap, wrote,
          apc, req, response,
          spc, history, question, source, attempt, attempts, scalls,
          generator, callers, loads>>

\* the variables of the normalizer exercise and of the concurrent calls
normVars == <<npc, text, other, edit, norm_text, norm_other, norm_twice>>
concVars == <<calls, owner, touched>>

\* the variables of the problem fetcher
fetchVars == <<fpc, count, problems, fetched_list, ncalls, given, lastFetch>>

\* everything outside the evaluator's own call
\* the variables of the Telegram webhook handler
hookVars == <<hpc, update, composed, replies, payload>>

\* the variables of the rate limiter and of the writers of the cache file
rateVars == <<now, LAST_REQUEST_TIME, threads, requests>>
shareVars == <<wpc, snap, wrote>>

\* the variables of the handler of POST /evaluate
apiVars == <<apc, req, response>>

\* the variables of generate_situational_question and of get_generator
situVars == <<spc, history, question, source, attempt, attempts, scalls>>
genVars == <<generator, callers, loads>>

laterVars == <<apiVars, situVars, genVars>>

sideVars == <<fetchVars, hookVars, rateVars, shareVars, laterVars>>

\* what one call keeps to itself or in the cache file
localVars == <<pc, tag, qkey, code, language, cacheFile, cacheReads, cacheWrites,
               problem, platform, samples, tmpdir, class_name, spawned, idx,
               passed, results, ret, exc, running, written>>

----------------------------------------------------------------------------
(* Bounds of the model *)

MaxSamples == 2

(* Program constants *)

IO_LIMIT == 1000
STDERR_LIMIT == 500
COMPILE_ERROR_LIMIT == 2000

None == "None"

----------------------------------------------------------------------------
(* Texts *)

Rep(c, n) == [i \in 1..n |-> c]

\* a plausible bug: the slice is missing
take_all(s, n) == s

\* s[:n]
Take(s, n) == IF Len(s) <= n THEN s ELSE SubSeq(s, 1, n)

\* characters str.strip() / str.rstrip() remove
Whitespace == {" ", "\n", "\t", "\r"}

\* characters str.splitlines() breaks at
LineBreaks == {"\n", "\r"}

\* str.lstrip()
lstrip(s) ==
    LET i == CHOOSE k \in 1..(Len(s) + 1) :
                 /\ (k = Len(s) + 1 \/ s[k] \notin Whitespace)
                 /\ \A j \in 1..(k - 1) : s[j] \in Whitespace
    IN SubSeq(s, i, Len(s))

\* a plausible bug: one whitespace character at most is removed at each end
strip_once(s) ==
    LET t == IF s # <<>> /\ s[Len(s)] \in Whitespace THEN SubSeq(s, 1, Len(s) - 1) ELSE s
    IN IF t # <<>> /\ t[1] \in Whitespace THEN Tail(t) ELSE t

\* str.rstrip()
rstrip(s) ==
    LET i == CHOOSE k \in 0..Len(s) :
                 /\ (k = 0 \/ s[k] \notin Whitespace)
                 /\ \A j \in (k + 1)..Len(s) : s[j] \in Whitespace
    IN SubSeq(s, 1, i)

\* str.strip()
strip(s) == lstrip(rstrip(s))

\* str.splitlines(): "\n", "\r" and "\r\n" end a line; no empty last line
RECURSIVE splitlines(_)
splitlines(s) ==
    IF s = <<>> THEN <<>>
    ELSE LET i == CHOOSE k \in 1..(Len(s) + 1) :
                      /\ (k = Len(s) + 1 \/ s[k] \in LineBreaks)
                      /\ \A j \in 1..(k - 1) : s[j] \notin LineBreaks
         IN IF i > Len(s) THEN <<s>>
            ELSE LET w == IF s[i] = "\r" /\ i < Len(s) /\ s[i + 1] = "\n"
                          THEN 2 ELSE 1
                 IN <<SubSeq(s, 1, i - 1)>>
                      \o splitlines(SubSeq(s, i + w, Len(s)))

\* "\n".join(lines)
RECURSIVE join(_)
join(lines) ==
    IF lines = <<>> THEN <<>>
    ELSE IF Len(lines) = 1 THEN lines[1]
    ELSE lines[1] \o <<"\n">> \o join(Tail(lines))

\* a plausible bug: the text is trimmed as a whole only
normalize_whole(s) == strip(s)

\* a plausible bug: the lines are right-trimmed and joined, the text is not trimmed
normalize_lines_only(s) ==
    LET split == splitlines(s)
    IN join([k \in DOMAIN split |-> rstrip(split[k])])

\* a plausible bug: each line is trimmed on both sides
normalize_both_sides(s) ==
    LET split == splitlines(strip(s))
    IN strip(join([k \in DOMAIN split |-> strip(split[k])]))

\* _normalize: strip, split into lines, right-trim each, join, strip
_normalize(s) ==
    LET split == splitlines(strip(s))
        lines == [k \in DOMAIN split |-> rstrip(split[k])]
    IN strip(join(lines))

----------------------------------------------------------------------------
(* Language tags *)

UpperCase == <<"A","B","C","D","E","F","G","H","I","J","K","L","M",
               "N","O","P","Q","R","S","T","U","V","W","X","Y","Z">>
LowerCase == <<"a","b","c","d","e","f","g","h","i","j","k","l","m",
               "n","o","p","q","r","s","t","u","v","w","x","y","z">>

\* a plausible bug: the tag is compared as it was passed
keep_case(s) == s

\* str.lower()
lower(s) ==
    [i \in DOMAIN s |->
        IF \E k \in 1..26 : UpperCase[k] = s[i]
        THEN LowerCase[CHOOSE k \in 1..26 : UpperCase[k] = s[i]]
        ELSE s[i]]

CPP == <<"c","p","p">>
PYTHON == <<"p","y","t","h","o","n">>
JAVA == <<"j","a","v","a">>

\* lines 320-324
resolve_language(t) ==
    LET l == lower(t)
    IN IF l \in {<<"c","+","+">>, <<"c","x","x">>, <<"c","c">>} THEN CPP
       ELSE IF l \in {<<"p","y">>, <<"p","y","t","h","o","n","3">>} THEN PYTHON
       ELSE l

supported_languages == {CPP, PYTHON, JAVA}

\* a plausible bug: the language check is missing
is_supported_any(l) == TRUE

\* line 327 (negated): the language is one of the supported ones
is_supported(l) == l \in supported_languages

\* the language tags a caller may pass
Tags == { <<"c","p","p">>, <<"C","+","+">>, <<"c","x","x">>, <<"C","C">>,
          <<"p","y","t","h","o","n">>, <<"P","y">>, <<"p","y","t","h","o","n","3">>,
          <<"J","a","v","a">>, <<"c","o","b","o","l">>, <<>> }

----------------------------------------------------------------------------
(* Dicts are functions from key strings; d.get(k, default) *)

Get(d, k, default) == IF k \in DOMAIN d THEN d[k] ELSE default

EmptyDict == [k \in {} |-> None]

----------------------------------------------------------------------------
(* The cache file and the problems a selection may hold *)

CF_LINK == "codeforces.com/problemset/problem/1/A"
LC_SLUG == "two-sum"
LC_LINK == "leetcode.com/problems/two-sum/"

\* cache_key of _fetch_leetcode_samples, line 138
lc_cache_key(slug) == <<"lc_", slug>>

\* last_selection as the fetchers store it (q1, q2), and entries of a cache
\* file written by other means: no link (q3), no titleSlug (q4), another
\* platform (q5).  q6 is not in the selection.
LastSelection ==
    [q \in {"q1", "q2", "q3", "q4", "q5"} |->
        CASE q = "q1" -> [name |-> "Watermelon", link |-> CF_LINK, platform |-> "codeforces"]
          [] q = "q2" -> [name |-> "Two Sum", link |-> LC_LINK, titleSlug |-> LC_SLUG,
                          platform |-> "leetcode"]
          [] q = "q3" -> [name |-> "Theatre Square", platform |-> "codeforces"]
          [] q = "q4" -> [name |-> "Add Two Numbers", link |-> LC_LINK, platform |-> "leetcode"]
          [] q = "q5" -> [name |-> "ABC 001 A", link |-> "atcoder.jp/1", platform |-> "atcoder"]]

QKeys == {"q1", "q2", "q3", "q4", "q5", "q6"}

\* sample pairs <<input, expected>>; the second one is longer than IO_LIMIT
\* and differs from LongOther only in its last character
LongIn == Rep("7", IO_LIMIT) \o <<"1">>
LongExpected == Rep("a", IO_LIMIT) \o <<"b">>
LongOther == Rep("a", IO_LIMIT) \o <<"c">>

SamplePool == { << <<"3">>, <<"9">> >>, <<LongIn, LongExpected>> }

RECURSIVE SeqsUpTo(_, _)
SeqsUpTo(S, n) ==
    IF n = 0 THEN {<<>>}
    ELSE LET shorter == SeqsUpTo(S, n - 1)
         IN shorter \cup {Append(t, x) : t \in {u \in shorter : Len(u) = n - 1}, x \in S}

\* what a scrape or the LeetCode API may deliver
SampleLists == SeqsUpTo(SamplePool, MaxSamples)

CachedCF == << << <<"3">>, <<"9">> >>, <<LongIn, LongExpected>> >>
CachedLC == << << <<"3">>, <<"9">> >> >>

\* the source texts a caller may pass, as token sequences
JavaCode == <<"public", "class", "Main", "{", "}">>
PlainCode == <<"int", "main", "(", ")">>
Codes == {JavaCode, PlainCode}

\* entries of SUBMISSIONS_DIR: eval_{qkey}_{suffix}
DirSuffixes == {"a", "b"}
LeftoverDir == <<"q1", "a">>

----------------------------------------------------------------------------
(* What the environment may answer *)

\* a compiler run: subprocess.run returns, or raises (FileNotFoundError when
\* the compiler is missing), or the compiler does not exit ("timeout").  A
\* compiler that rejects a source reports its diagnostics on stderr.
CompileOutcomes ==
    { [kind |-> "completed", rc |-> 0, stderr |-> <<>>],
      [kind |-> "completed", rc |-> 1, stderr |-> <<"e","r","r","o","r">>],
      [kind |-> "completed", rc |-> 1, stderr |-> Rep("x", COMPILE_ERROR_LIMIT + 1)],
      [kind |-> "timeout"],
      [kind |-> "raised"] }

\* a candidate run: subprocess.run returns, the candidate does not exit in
\* time ("timeout"), or subprocess.run raises something else (OSError on
\* launch, UnicodeDecodeError on the output)
RunOutcomes ==
    { [kind |-> "completed", rc |-> 0, stdout |-> <<"9", " ", "\n">>, stderr |-> <<>>],
      [kind |-> "completed", rc |-> 1, stdout |-> <<"9", "\n">>, stderr |-> <<"e">>],
      [kind |-> "completed", rc |-> 0, stdout |-> LongExpected \o <<"\n">>, stderr |-> <<>>],
      [kind |-> "completed", rc |-> 0, stdout |-> LongOther,
                             stderr |-> Rep("w", STDERR_LIMIT + 1)],
      [kind |-> "timeout"],
      [kind |-> "raised"] }

----------------------------------------------------------------------------
(* Helpers of the evaluation, each from its line of evaluate_*_solution *)

\* a plausible bug: the emptiness test is missing
no_samples_never(s) == FALSE

\* `not samples`, lines 351 and 369
no_samples(s) == s = <<>>

\* a plausible bug: only a compiler killed by a signal counts as a failure
compile_failed_signal(rc) == rc < 0

\* `rc != 0`, lines 224 and 288
compile_failed(rc) == rc # 0

\* a plausible bug: the compiler's diagnostics are put in the field `error`
compile_failure_as_error(err) ==
    [ok |-> FALSE, summary |-> <<"Compilation failed">>,
     error |-> Take(err, COMPILE_ERROR_LIMIT), results |-> <<>>]

\* lines 225 and 289
compile_failure(err) ==
    [ok |-> FALSE, summary |-> <<"Compilation failed">>,
     compile_error |-> Take(err, COMPILE_ERROR_LIMIT), results |-> <<>>]

\* a plausible bug: the verdict is computed on the truncated copies
case_ok_truncated(rc, got_out, expected) ==
    (rc = 0) /\ (_normalize(Take(got_out, IO_LIMIT)) = _normalize(Take(expected, IO_LIMIT)))

\* lines 232-234
case_ok(rc, got_out, expected) ==
    (rc = 0) /\ (_normalize(got_out) = _normalize(expected))

\* lines 237-241
case_result(i, inp, expected, rc, got_out, got_err) ==
    [case |-> i, ok |-> case_ok(rc, got_out, expected), exit_code |-> rc,
     input |-> Take(inp, IO_LIMIT), expected |-> Take(expected, IO_LIMIT),
     got |-> Take(got_out, IO_LIMIT), stderr |-> Take(got_err, STDERR_LIMIT)]

TLE_TEXT == <<"T","i","m","e"," ","L","i","m","i","t"," ",
              "E","x","c","e","e","d","e","d">>

\* a plausible bug: a timeout is recorded like a crash, with an exit code
timeout_result_as_crash(i, inp, expected) ==
    [case |-> i, ok |-> FALSE, timeout |-> TRUE, exit_code |-> -1,
     input |-> Take(inp, IO_LIMIT), expected |-> Take(expected, IO_LIMIT),
     got |-> <<>>, stderr |-> TLE_TEXT]

\* lines 243-247
timeout_result(i, inp, expected) ==
    [case |-> i, ok |-> FALSE, timeout |-> TRUE,
     input |-> Take(inp, IO_LIMIT), expected |-> Take(expected, IO_LIMIT),
     got |-> <<>>, stderr |-> TLE_TEXT]

\* a plausible bug: the last match of the pattern is taken
java_class_name_last(c) ==
    LET hits == {k \in 1..(Len(c) - 2) : c[k] = "public" /\ c[k + 1] = "class"}
    IN IF hits = {} THEN "Solution"
       ELSE c[(CHOOSE k \in hits : \A h \in hits : k >= h) + 2]

\* lines 282-283: the name after the first "public class", else "Solution"
java_class_name(c) ==
    LET hits == {k \in 1..(Len(c) - 2) : c[k] = "public" /\ c[k + 1] = "class"}
    IN IF hits = {} THEN "Solution"
       ELSE c[(CHOOSE k \in hits : \A j \in hits : k <= j) + 2]

\* round(): to the nearest integer, a tie to the even one
round_div(n, d) ==
    LET q == n \div d
        r == n % d
    IN IF 2 * r < d THEN q
       ELSE IF 2 * r > d THEN q + 1
       ELSE IF q % 2 = 0 THEN q ELSE q + 1

\* a plausible bug: the percentage is truncated, int(100 * passed / total)
score_floor(p, total) == IF total > 0 THEN (100 * p) \div total ELSE 0

\* line 394
score_of(p, total) == IF total > 0 THEN round_div(100 * p, total) ELSE 0

\* the process a language runs a sample with: _run_cpp, _run_python, _run_java
runner(l) == IF l = CPP THEN "exe" ELSE IF l = PYTHON THEN "python" ELSE "java"

\* the compiler of a language: _compile_cpp, _compile_java
compiler(l) == IF l = CPP THEN "g++" ELSE "javac"

\* the source file an adapter writes, lines 219, 253 and 284
source_name(l, q, cls) ==
    IF l = CPP THEN <<q, ".cpp">>
    ELSE IF l = PYTHON THEN <<q, ".py">>
    ELSE <<cls, ".java">>

\* the file a successful compilation leaves, lines 220 and 287
artifact_name(l, q, cls) == IF l = CPP THEN <<q>> ELSE <<cls, ".class">>

\* a plausible bug: the runner is handed the source file
program_name_source(l, q, cls) == source_name(l, q, cls)

\* what a run of the candidate loads: the executable (line 231), the source
\* (line 260), the class class_name of the class directory (line 295)
program_name(l, q, cls) ==
    IF l = PYTHON THEN source_name(l, q, cls) ELSE artifact_name(l, q, cls)

\* a plausible bug: the directory is removed at the end of the try block
\* instead of in a finally clause
dirs_after_try_only(how) == IF how = "except" THEN dirs ELSE dirs \ {tmpdir}

\* line 409, shutil.rmtree(tmpdir, ignore_errors=True) in the finally clause:
\* it runs however the try block is left ("return" or "except")
dirs_after_finally(how) == dirs \ {tmpdir}
files_after_finally(how) == {f \in files : f[1] # tmpdir}

\* a plausible bug: the candidate is run with no timeout argument
run_ceiling_none(l) == {}

\* the timeout, in seconds, given to subprocess.run for a candidate:
\* lines 194 and 231 (cpp), 200 and 260 (python), 212 and 295 (java)
run_ceiling(l) == IF l = CPP THEN {3} ELSE {5}

\* the timeout given to subprocess.run for a compiler, lines 190 and 208
compile_ceiling(l) == {60}

\* the processes subprocess.run leaves alive after the candidate of sample i:
\* on a timeout it kills the process it started (lines 194-197, no process
\* group, no new session), so a child the candidate started lives on
left_running(o, i) ==
    IF o.kind = "timeout" /\ "child" \in DOMAIN o /\ o.child
    THEN {<<i, "child">>} ELSE {}

----------------------------------------------------------------------------
(* The call of evaluate_solution *)

NoDir == <<>>

\* no call has been made
\* no call of evaluate_solution has been made
NoCall ==
    /\ pc = "idle"
    /\ tag = <<>> /\ qkey = None /\ code = <<>> /\ language = <<>>
    /\ cacheReads = 0 /\ cacheWrites = 0
    /\ problem = EmptyDict /\ platform = None /\ samples = <<>>
    /\ dirs = {LeftoverDir} /\ files = {<<LeftoverDir, <<"q1", ".cpp">>>>}
    /\ tmpdir = NoDir /\ class_name = None
    /\ spawned = <<>> /\ idx = 0 /\ passed = 0 /\ results = <<>>
    /\ ret = EmptyDict /\ exc = None
    /\ running = {} /\ written = <<>>

CallIdle ==
    /\ cacheFile \in
          { [last_selection |-> LastSelection,
             sample_cache |-> (lc_cache_key(LC_SLUG) :> CachedLC)],
            [last_selection |-> LastSelection,
             sample_cache |-> (<<CF_LINK>> :> CachedCF)] }
    /\ NoCall

\* _normalize is not exercised
NormIdle ==
    /\ npc = "idle" /\ text = <<>> /\ other = <<>> /\ edit = "none"
    /\ norm_text = <<>> /\ norm_other = <<>> /\ norm_twice = <<>>

\* there are no concurrent calls
ConcIdle == calls = <<>> /\ owner = EmptyDict /\ touched = {}

NoFetch == [cands |-> {}, selected |-> {}, before |-> {}]

\* fetch_mixed_problems has not been called
FetchIdle ==
    /\ fpc = "idle" /\ count = 0 /\ problems = <<>> /\ fetched_list = <<>>
    /\ ncalls = 0 /\ given = {} /\ lastFetch = NoFetch

NoParts == [word |-> <<>>, q |-> <<>>, lang |-> <<>>, body |-> <<>>]

\* no update has been delivered
HookIdle ==
    /\ hpc = "idle" /\ update = <<>> /\ composed = NoParts
    /\ replies = <<>> /\ payload = <<>>

\* the module constants of problem_fetcher.py, lines 14-15
MIN_REQUEST_INTERVAL == 2

Threads == {1, 2}

\* no thread is in rate_limit; the clock is past the first interval
RateIdle ==
    /\ now = MIN_REQUEST_INTERVAL
    /\ LAST_REQUEST_TIME = 0
    /\ threads = [t \in Threads |-> [pc |-> "idle", current_time |-> 0, wake |-> 0, done |-> 0]]
    /\ requests = <<>>

Writers == {"evaluation", "fetch", "situational"}

\* no writer has loaded the cache file
ShareIdle ==
    /\ wpc = [w \in Writers |-> "idle"]
    /\ snap = [w \in Writers |-> [situational_history |-> <<>>]]
    /\ wrote = [w \in Writers |-> <<>>]

\* no request has reached POST /evaluate
ApiIdle == apc = "idle" /\ req = EmptyDict /\ response = EmptyDict

\* generate_situational_question has not been called
SituIdle ==
    /\ spc = "idle" /\ history = <<>> /\ question = None /\ source = "bank"
    /\ attempt = 0 /\ attempts = 0 /\ scalls = 0

GenThreads == {1, 2}

\* lines 13-15 of situational_gen.py: nothing is loaded, nobody has called
GenIdle ==
    /\ generator = 0
    /\ callers = [t \in GenThreads |-> [pc |-> "idle", load |-> 0, got |-> 0, ncalls |-> 0]]
    /\ loads = <<>>

SideIdle == FetchIdle /\ HookIdle /\ RateIdle /\ ShareIdle /\ ApiIdle /\ SituIdle /\ GenIdle

Init == CallIdle /\ NormIdle /\ ConcIdle /\ SideIdle

\* `return r`
Return(r) == pc' = "returned" /\ ret' = r /\ UNCHANGED exc

\* an exception leaves evaluate_solution
Raise(e) == pc' = "raised" /\ exc' = e /\ UNCHANGED ret

\* lines 316-328
Receive(q, t, c) ==
    /\ pc = "idle"
    /\ qkey' = q /\ tag' = t /\ code' = c
    /\ language' = resolve_language(t)
    /\ IF is_supported(resolve_language(t))
       THEN pc' = "load" /\ UNCHANGED <<ret, exc>>
       ELSE Return([ok |-> FALSE,
                    error |-> <<"Language '", resolve_language(t), "' not supported">>])
    /\ UNCHANGED <<cacheFile, cacheReads, cacheWrites, problem, platform, samples,
                   dirs, files, tmpdir, class_name, spawned, idx, passed, results>>
    /\ UNCHANGED <<running, written, normVars, concVars, sideVars>>

\* lines 330-348 and 366-367; readable: whether open(CACHE_FILE) succeeds
LoadSelection(readable) ==
    /\ pc = "load"
    /\ cacheReads' = cacheReads + 1
    /\ LET last == cacheFile.last_selection
           prob == last[qkey]
           plat == Get(prob, "platform", "codeforces")
       IN IF ~readable
          THEN Raise("OSError") /\ UNCHANGED <<problem, platform>>
          ELSE IF qkey \notin DOMAIN last
          THEN /\ Return([ok |-> FALSE, error |-> <<"No problem found for ", qkey>>])
               /\ UNCHANGED <<problem, platform>>
          ELSE /\ problem' = prob
               /\ platform' = plat
               /\ IF plat = "codeforces"
                  THEN IF "link" \in DOMAIN prob
                       THEN pc' = "fetch_cf" /\ UNCHANGED <<ret, exc>>
                       ELSE Raise("KeyError")
                  ELSE IF plat = "leetcode"
                  THEN IF Get(prob, "titleSlug", "") # ""
                       THEN pc' = "fetch_lc" /\ UNCHANGED <<ret, exc>>
                       ELSE Return([ok |-> FALSE,
                                    error |-> <<"LeetCode problem missing titleSlug">>])
                  ELSE Return([ok |-> FALSE,
                               error |-> <<"Platform '", plat, "' not supported">>])
    /\ UNCHANGED <<tag, qkey, code, language, cacheFile, cacheWrites, samples,
                   dirs, files, tmpdir, class_name, spawned, idx, passed, results>>
    /\ UNCHANGED <<running, written, normVars, concVars, sideVars>>

\* a plausible bug: the file is rewritten with the new samples alone
with_samples_alone(key, fetched) ==
    [last_selection |-> EmptyDict, sample_cache |-> (key :> fetched)]

\* cache["sample_cache"][key] = fetched; _save_cache(cache)
with_samples(key, fetched) ==
    [cacheFile EXCEPT !.sample_cache = (key :> fetched) @@ cacheFile.sample_cache]

\* lines 369-375
samples_unavailable ==
    [ok |-> FALSE, problem |-> problem,
     summary |-> <<"No sample tests available for ", platform>>,
     error |-> <<"Samples unavailable">>]

\* lines 352-365
leetcode_received ==
    [ok |-> TRUE, problem |-> problem,
     summary |-> <<"Code received for LeetCode problem">>,
     message |-> <<"Code received for: ", problem.name, problem.link>>,
     platform |-> "leetcode", leetcode_link |-> problem.link,
     note |-> <<"Submit on LeetCode.com for comprehensive testing">>]

\* line 343 with _fetch_codeforces_samples (109-131), then lines 369-377.
\* readable: whether open(CACHE_FILE) succeeds; fetched: what the scrape
\* delivers; writable: whether _save_cache succeeds
FetchCodeforcesSamples(readable, fetched, writable) ==
    /\ pc = "fetch_cf"
    /\ cacheReads' = cacheReads + 1
    /\ LET key == <<problem.link>>
           hit == key \in DOMAIN cacheFile.sample_cache
           got == IF hit THEN cacheFile.sample_cache[key] ELSE fetched
       IN IF ~readable \/ (~hit /\ fetched # <<>> /\ ~writable)
          THEN Raise("OSError") /\ UNCHANGED <<samples, cacheFile, cacheWrites>>
          ELSE /\ samples' = got
               /\ IF ~hit /\ fetched # <<>>
                  THEN cacheFile' = with_samples(key, fetched)
                       /\ cacheWrites' = cacheWrites + 1
                  ELSE UNCHANGED <<cacheFile, cacheWrites>>
               /\ IF no_samples(got)
                  THEN Return(samples_unavailable)
                  ELSE pc' = "mktemp" /\ UNCHANGED <<ret, exc>>
    /\ UNCHANGED <<tag, qkey, code, language, problem, platform,
                   dirs, files, tmpdir, class_name, spawned, idx, passed, results>>
    /\ UNCHANGED <<running, written, normVars, concVars, sideVars>>

\* line 348 with _fetch_leetcode_samples (134-180), then lines 351-365.
\* readable: whether open(CACHE_FILE) at line 136 succeeds; fetched: the pairs
\* the API delivers, <<>> also when the request fails; a failing _save_cache
\* is caught at line 178 and the samples are dropped
FetchLeetcodeSamples(readable, fetched, writable) ==
    /\ pc = "fetch_lc"
    /\ cacheReads' = cacheReads + 1
    /\ LET key == lc_cache_key(problem.titleSlug)
           hit == key \in DOMAIN cacheFile.sample_cache
           got == IF hit THEN cacheFile.sample_cache[key]
                  ELSE IF fetched # <<>> /\ ~writable THEN <<>>
                  ELSE fetched
       IN IF ~readable
          THEN Raise("OSError") /\ UNCHANGED <<samples, cacheFile, cacheWrites>>
          ELSE /\ samples' = got
               /\ IF ~hit /\ fetched # <<>> /\ writable
                  THEN cacheFile' = with_samples(key, fetched)
                       /\ cacheWrites' = cacheWrites + 1
                  ELSE UNCHANGED <<cacheFile, cacheWrites>>
               /\ IF no_samples(got)
                  THEN Return(leetcode_received)
                  ELSE pc' = "mktemp" /\ UNCHANGED <<ret, exc>>
    /\ UNCHANGED <<tag, qkey, code, language, problem, platform,
                   dirs, files, tmpdir, class_name, spawned, idx, passed, results>>
    /\ UNCHANGED <<running, written, normVars, concVars, sideVars>>

\* line 379: tempfile.mkdtemp picks a name that does not exist yet
MakeTmp(sfx) ==
    /\ pc = "mktemp"
    /\ <<qkey, sfx>> \notin dirs
    /\ tmpdir' = <<qkey, sfx>>
    /\ dirs' = dirs \cup {<<qkey, sfx>>}
    /\ pc' = "build"
    /\ UNCHANGED <<tag, qkey, code, language, cacheFile, cacheReads, cacheWrites,
                   problem, platform, samples, files, class_name, spawned,
                   idx, passed, results, ret, exc>>
    /\ UNCHANGED <<running, written, normVars, concVars, sideVars>>

\* what building may meet: the interpreted language only writes the source
BuildOutcomes(l) ==
    IF l = PYTHON THEN {[kind |-> "written"], [kind |-> "raised"]}
    ELSE CompileOutcomes

\* a plausible bug: the result also reports the work directory of the call
with_context_and_dir(r) ==
    [problem |-> problem, language |-> language, platform |-> platform,
     workdir |-> tmpdir] @@ r

\* lines 401-403
with_context(r) ==
    [problem |-> problem, language |-> language, platform |-> platform] @@ r

\* lines 406-407
evaluation_error(e) ==
    [ok |-> FALSE, error |-> <<"Evaluation error: ", e>>, problem |-> problem]

\* the summary of line 395
summary_of(p, total) ==
    <<"Passed ", p, "/", total, " tests · Score: ", score_of(p, total), "%">>

\* lines 249 and 391-403 for the dict an adapter returns after its loop
evaluated(p, total, res) ==
    LET base == with_context([ok |-> TRUE, passed |-> p, total |-> total, results |-> res,
                              summary |-> summary_of(p, total),
                              score |-> score_of(p, total)])
    IN IF platform = "leetcode"
       THEN [note |-> <<"Limited test cases. Submit on LeetCode for full validation.">>]
              @@ base
       ELSE base

\* lines 381-389 up to the sample loop: lines 219-225 (cpp), 253-254
\* (python), 282-289 (java); an exception is handled at lines 406-409
Build(o) ==
    /\ pc = "build"
    /\ o \in BuildOutcomes(language)
    /\ class_name' = IF language = JAVA THEN java_class_name(code) ELSE class_name
    /\ written' = Append(written, source_name(language, qkey, class_name'))
    /\ spawned' = IF language = PYTHON THEN spawned
                  ELSE Append(spawned, [proc |-> compiler(language), case |-> 0,
                                        outcome |-> o,
                                        src |-> source_name(language, qkey, class_name'),
                                        out |-> artifact_name(language, qkey, class_name')])
    /\ IF o.kind = "timeout" /\ compile_ceiling(language) = {}
       THEN /\ pc' = "blocked"
            /\ UNCHANGED <<ret, exc, dirs, files, idx>>
       ELSE IF o.kind \in {"raised", "timeout"}
       THEN /\ Return(evaluation_error("build"))
            /\ dirs' = dirs_after_finally("except")
            /\ files' = files_after_finally("except")
            /\ UNCHANGED idx
       ELSE IF o.kind = "completed" /\ compile_failed(o.rc)
       THEN /\ Return(with_context(compile_failure(o.stderr)))
            /\ dirs' = dirs_after_finally("return")
            /\ files' = files_after_finally("return")
            /\ UNCHANGED idx
       ELSE /\ pc' = "run"
            /\ idx' = 1
            /\ files' = files
                  \cup {<<tmpdir, source_name(language, qkey, class_name')>>}
                  \cup (IF language = PYTHON THEN {}
                        ELSE {<<tmpdir, artifact_name(language, qkey, class_name')>>})
            /\ UNCHANGED <<dirs, ret, exc>>
    /\ UNCHANGED <<tag, qkey, code, language, cacheFile, cacheReads, cacheWrites,
                   problem, platform, samples, tmpdir, passed, results>>
    /\ UNCHANGED <<running, normVars, concVars, sideVars>>

\* one iteration of the sample loop, lines 229-247 (258-276, 293-311);
\* an exception other than TimeoutExpired is handled at lines 406-409
RunCase(o) ==
    /\ pc = "run"
    /\ idx <= Len(samples)
    /\ spawned' = Append(spawned, [proc |-> runner(language), case |-> idx, outcome |-> o,
                                   file |-> program_name(language, qkey, class_name)])
    /\ running' = running \cup left_running(o, idx)
    /\ LET inp == samples[idx][1]
           expected == samples[idx][2]
       IN IF o.kind = "timeout" /\ run_ceiling(language) = {}
          THEN /\ pc' = "blocked"
               /\ UNCHANGED <<ret, exc, dirs, files, idx, passed, results>>
          ELSE IF o.kind = "raised"
          THEN /\ Return(evaluation_error("run"))
               /\ dirs' = dirs_after_finally("except")
               /\ files' = files_after_finally("except")
               /\ UNCHANGED <<idx, passed, results>>
          ELSE /\ idx' = idx + 1
               /\ IF o.kind = "timeout"
                  THEN /\ results' = Append(results, timeout_result(idx, inp, expected))
                       /\ UNCHANGED passed
                  ELSE /\ results' = Append(results,
                              case_result(idx, inp, expected, o.rc, o.stdout, o.stderr))
                       /\ passed' = IF case_ok(o.rc, o.stdout, expected)
                                    THEN passed + 1 ELSE passed
               /\ UNCHANGED <<pc, ret, exc, dirs, files>>
    /\ UNCHANGED <<tag, qkey, code, language, cacheFile, cacheReads, cacheWrites,
                   problem, platform, samples, tmpdir, class_name>>
    /\ UNCHANGED <<written, normVars, concVars, sideVars>>

\* the loop is over: lines 249 and 391-404, then the finally clause
Finish ==
    /\ pc = "run"
    /\ idx > Len(samples)
    /\ Return(evaluated(passed, Len(samples), results))
    /\ dirs' = dirs_after_finally("return")
    /\ files' = files_after_finally("return")
    /\ UNCHANGED <<tag, qkey, code, language, cacheFile, cacheReads, cacheWrites,
                   problem, platform, samples, tmpdir, class_name, spawned,
                   idx, passed, results>>
    /\ UNCHANGED <<running, written, normVars, concVars, sideVars>>

\* the calls made: Java source is submitted under the java tag, and the
\* synonyms and mixed-case tags are tried on q1
Requests ==
    {r \in QKeys \X Tags \X Codes :
        /\ r[3] = JavaCode => resolve_language(r[2]) = JAVA
        /\ r[1] # "q1" => r[2] \in {CPP, PYTHON, <<"J","a","v","a">>, <<"c","o","b","o","l">>}}

Next ==
    \/ \E r \in Requests : Receive(r[1], r[2], r[3])
    \/ \E readable \in BOOLEAN : LoadSelection(readable)
    \/ \E readable \in BOOLEAN, fetched \in SampleLists, writable \in BOOLEAN :
           FetchCodeforcesSamples(readable, fetched, writable)
    \/ \E readable \in BOOLEAN, fetched \in SampleLists, writable \in BOOLEAN :
           FetchLeetcodeSamples(readable, fetched, writable)
    \/ \E sfx \in DirSuffixes : MakeTmp(sfx)
    \/ \E o \in CompileOutcomes \cup BuildOutcomes(PYTHON) : Build(o)
    \/ \E o \in RunOutcomes : RunCase(o)
    \/ Finish

Spec == Init /\ [][Next]_vars

----------------------------------------------------------------------------
(* The same call for the requests that reach the sample loop: the two
   problems the fetchers store, under one tag of each adapter *)

VerdictRequests ==
    {r \in Requests : r[1] \in {"q1", "q2"} /\ r[2] \in {CPP, PYTHON, <<"J","a","v","a">>}}

NextVerdict ==
    \/ \E r \in VerdictRequests : Receive(r[1], r[2], r[3])
    \/ \E readable \in BOOLEAN : LoadSelection(readable)
    \/ \E readable \in BOOLEAN, fetched \in SampleLists, writable \in BOOLEAN :
           FetchCodeforcesSamples(readable, fetched, writable)
    \/ \E readable \in BOOLEAN, fetched \in SampleLists, writable \in BOOLEAN :
           FetchLeetcodeSamples(readable, fetched, writable)
    \/ \E sfx \in DirSuffixes : MakeTmp(sfx)
    \/ \E o \in CompileOutcomes \cup BuildOutcomes(PYTHON) : Build(o)
    \/ \E o \in RunOutcomes : RunCase(o)
    \/ Finish

SpecVerdict == Init /\ [][NextVerdict]_vars

----------------------------------------------------------------------------
(* The same call on longer sample lists: one problem, one language, short
   texts, and a candidate that answers right, overruns its time, or overruns
   it after starting a child process of its own *)

MaxRunSamples == 8

ShortSample == << <<"3">>, <<"9">> >>

\* the lists the scraper may return here: 1..MaxRunSamples samples
RunSampleLists == {Rep(ShortSample, n) : n \in 1..MaxRunSamples}

RunsCompileOutcomes ==
    { [kind |-> "completed", rc |-> 0, stderr |-> <<>>],
      [kind |-> "timeout"] }

RunsOutcomes ==
    { [kind |-> "completed", rc |-> 0, stdout |-> <<"9", "\n">>, stderr |-> <<>>],
      [kind |-> "timeout"],
      [kind |-> "timeout", child |-> TRUE] }

InitRuns == Init /\ <<CF_LINK>> \notin DOMAIN cacheFile.sample_cache

NextRuns ==
    \/ Receive("q1", CPP, PlainCode)
    \/ LoadSelection(TRUE)
    \/ \E fetched \in RunSampleLists : FetchCodeforcesSamples(TRUE, fetched, TRUE)
    \/ MakeTmp("b")
    \/ \E o \in RunsCompileOutcomes : Build(o)
    \/ \E o \in RunsOutcomes : RunCase(o)
    \/ Finish

\* every step of the call is taken once it can be: the interpreter keeps
\* executing evaluate_solution, and subprocess.run comes back
SpecRuns == InitRuns /\ [][NextRuns]_vars /\ WF_vars(NextRuns)

----------------------------------------------------------------------------
(* The same call for Java sources: one with a public class, one with none,
   one with a class that is not public followed by two public ones *)

TwoClassCode == <<"class", "Helper", "{", "}", "public", "class", "First", "{", "}",
                  "public", "class", "Second", "{", "}">>

JavaCodes == {JavaCode, PlainCode, TwoClassCode}

JavaSampleLists == {Rep(ShortSample, 1), Rep(ShortSample, 2)}

JavaCompileOutcomes ==
    { [kind |-> "completed", rc |-> 0, stderr |-> <<>>],
      [kind |-> "completed", rc |-> 1, stderr |-> <<"e","r","r","o","r">>] }

NextJava ==
    \/ \E c \in JavaCodes : Receive("q1", <<"J","a","v","a">>, c)
    \/ LoadSelection(TRUE)
    \/ \E fetched \in JavaSampleLists : FetchCodeforcesSamples(TRUE, fetched, TRUE)
    \/ MakeTmp("b")
    \/ \E o \in JavaCompileOutcomes : Build(o)
    \/ \E o \in RunsOutcomes : RunCase(o)
    \/ Finish

SpecJava == InitRuns /\ [][NextJava]_vars

----------------------------------------------------------------------------
(* Two calls of evaluate_solution at once (the API serves requests
   concurrently), followed through lines 379-409 at the grain of one file
   system operation per step *)

Evaluations == {1, 2}

ConcSuffixes == DirSuffixes \cup {"c"}

ConcRequests == {"q1", "q2"} \X {CPP, PYTHON, JAVA}

\* a plausible bug: the work directory is named after the qkey alone
\* (os.makedirs(..., exist_ok=True))
qkey_names(q) == {<<q, "a">>}

\* tempfile.mkdtemp(prefix=f"eval_{qkey}_", dir=SUBMISSIONS_DIR), line 379:
\* the directory is created under a name that does not exist yet
mkdtemp_names(q) == {<<q, sfx>> : sfx \in ConcSuffixes} \ dirs

\* the source file of a call, lines 219, 253, 283-285
source_of(c) ==
    <<c.tmpdir, source_name(c.language, c.qkey,
                            IF c.language = JAVA THEN java_class_name(JavaCode) ELSE None)>>

\* what the compiler of a call writes, lines 220 and 287
artifact_of(c) ==
    <<c.tmpdir, artifact_name(c.language, c.qkey,
                              IF c.language = JAVA THEN java_class_name(JavaCode) ELSE None)>>

\* the file a run of the candidate loads, lines 231, 260, 295
program_of(c) == IF c.language = PYTHON THEN source_of(c) ELSE artifact_of(c)

\* call e does op on the files F: who had written each is recorded
access(e, op, F) ==
    {[by |-> e, op |-> op, of |-> Get(owner, f, 0)] : f \in F \cap files}

InitConc ==
    /\ CallIdle /\ <<CF_LINK>> \notin DOMAIN cacheFile.sample_cache
    /\ NormIdle /\ SideIdle
    /\ calls = [e \in Evaluations |->
                  [pc |-> "idle", qkey |-> None, language |-> <<>>, tmpdir |-> NoDir]]
    /\ owner = EmptyDict
    /\ touched = {}

\* lines 316-378 of call e: nothing under SUBMISSIONS_DIR is touched
Enter(e, q, l) ==
    /\ calls[e].pc = "idle"
    /\ calls' = [calls EXCEPT ![e] = [@ EXCEPT !.pc = "mktemp", !.qkey = q, !.language = l]]
    /\ UNCHANGED <<dirs, files, owner, touched, localVars, normVars, sideVars>>

\* line 379 of call e
ConcMakeTmp(e, d) ==
    /\ calls[e].pc = "mktemp"
    /\ d \in mkdtemp_names(calls[e].qkey)
    /\ dirs' = dirs \cup {d}
    /\ calls' = [calls EXCEPT ![e] = [@ EXCEPT !.pc = "write", !.tmpdir = d]]
    /\ UNCHANGED <<files, owner, touched, localVars, normVars, sideVars>>

\* _write_code_to_file of call e, lines 221, 254, 285
ConcWrite(e) ==
    /\ calls[e].pc = "write"
    /\ LET f == source_of(calls[e])
       IN /\ touched' = touched \cup access(e, "overwrite", {f})
          /\ files' = files \cup {f}
          /\ owner' = (f :> e) @@ owner
    /\ calls' = [calls EXCEPT ![e] = [@ EXCEPT !.pc =
                     IF calls[e].language = PYTHON THEN "run" ELSE "compile"]]
    /\ UNCHANGED <<dirs, localVars, normVars, sideVars>>

\* the compiler of call e reads the source and writes the artifact,
\* lines 223 and 287
ConcCompile(e) ==
    /\ calls[e].pc = "compile"
    /\ LET f == artifact_of(calls[e])
       IN /\ touched' = touched \cup access(e, "read", {source_of(calls[e])})
                                 \cup access(e, "overwrite", {f})
          /\ files' = files \cup {f}
          /\ owner' = (f :> e) @@ owner
    /\ calls' = [calls EXCEPT ![e] = [@ EXCEPT !.pc = "run"]]
    /\ UNCHANGED <<dirs, localVars, normVars, sideVars>>

\* the candidate of call e is run on the samples, lines 229-247
ConcRun(e) ==
    /\ calls[e].pc = "run"
    /\ touched' = touched \cup access(e, "read", {program_of(calls[e])})
    /\ calls' = [calls EXCEPT ![e] = [@ EXCEPT !.pc = "cleanup"]]
    /\ UNCHANGED <<dirs, files, owner, localVars, normVars, sideVars>>

\* shutil.rmtree(tmpdir) of call e, line 409, reached from any point of the
\* try block (a return or an exception)
ConcCleanup(e) ==
    /\ calls[e].pc \in {"write", "compile", "run", "cleanup"}
    /\ LET gone == {f \in files : f[1] = calls[e].tmpdir}
       IN /\ touched' = touched \cup access(e, "remove", gone)
          /\ files' = files \ gone
    /\ dirs' = dirs \ {calls[e].tmpdir}
    /\ calls' = [calls EXCEPT ![e] = [@ EXCEPT !.pc = "done"]]
    /\ UNCHANGED <<owner, localVars, normVars, sideVars>>

NextConc ==
    \/ \E e \in Evaluations, r \in ConcRequests : Enter(e, r[1], r[2])
    \/ \E e \in Evaluations, d \in {"q1", "q2"} \X ConcSuffixes : ConcMakeTmp(e, d)
    \/ \E e \in Evaluations : ConcWrite(e)
    \/ \E e \in Evaluations : ConcCompile(e)
    \/ \E e \in Evaluations : ConcRun(e)
    \/ \E e \in Evaluations : ConcCleanup(e)

SpecConc == InitConc /\ [][NextConc]_vars

----------------------------------------------------------------------------
(* _normalize on its own: a text is drawn, a second text may be derived from
   it by one kind of change, both are normalized as lines 232-234 do with the
   output and the expected text, and the result is normalized once more *)

MaxTextLen == 4

Chars == {"a", "b", " ", "\n", "\r"}

Texts == SeqsUpTo(Chars, MaxTextLen)

\* s with c put in after its first i characters
Insert(s, i, c) == SubSeq(s, 1, i) \o <<c>> \o SubSeq(s, i + 1, Len(s))

\* there is no line break in s[i..j]
SameLine(s, i, j) == \A k \in i..j : s[k] \notin LineBreaks

\* i characters into s a line ends: the text ends there or a line break follows
LineEnd(s, i) ==
    /\ i \in 0..Len(s)
    /\ IF i = Len(s) THEN TRUE ELSE s[i + 1] \in LineBreaks
    /\ ~(i >= 1 /\ i < Len(s) /\ s[i] = "\r" /\ s[i + 1] = "\n")

\* i characters into s a line starts that has a character other than whitespace
LineStart(s, i) ==
    /\ i \in 0..(Len(s) - 1)
    /\ IF i = 0 THEN TRUE ELSE s[i] \in LineBreaks
    /\ ~(i >= 1 /\ s[i] = "\r" /\ s[i + 1] = "\n")
    /\ \E k \in (i + 1)..Len(s) : s[k] \notin Whitespace /\ SameLine(s, i + 1, k)

\* there is a character other than whitespace among the first i of s
InkBefore(s, i) == \E j \in 1..i : s[j] \notin Whitespace
\* ... and after them
InkAfter(s, i) == \E k \in (i + 1)..Len(s) : s[k] \notin Whitespace

InitNorm ==
    /\ CallIdle /\ <<CF_LINK>> \notin DOMAIN cacheFile.sample_cache
    /\ ConcIdle /\ SideIdle
    /\ npc = "drawn"
    /\ text \in Texts /\ other = text /\ edit = "none"
    /\ norm_text = <<>> /\ norm_other = <<>> /\ norm_twice = <<>>

\* `other` becomes v, a variation of the kind `how`
Vary(how, v) ==
    /\ other' = v /\ edit' = how /\ npc' = "varied"
    /\ UNCHANGED <<text, norm_text, norm_other, norm_twice>>
    /\ UNCHANGED <<localVars, dirs, files, concVars, sideVars>>

\* a space is appended to a line, or a line break to the text, up to twice
Pad(i) ==
    /\ npc \in {"drawn", "varied"} /\ edit \in {"none", "pad"}
    /\ Len(other) < Len(text) + 2
    /\ \/ LineEnd(other, i) /\ Vary("pad", Insert(other, i, " "))
       \/ i = Len(other) /\ Vary("pad", Append(other, "\n"))

\* a character other than whitespace is replaced by another one
SubstChar(i, c) ==
    /\ npc = "drawn"
    /\ i \in 1..Len(text)
    /\ text[i] \notin Whitespace /\ c \notin Whitespace /\ c # text[i]
    /\ Vary("char", [text EXCEPT ![i] = c])

\* a space is put inside a line, after one of its characters other than
\* whitespace and before another
InsertInside(i) ==
    /\ npc = "drawn"
    /\ i \in 1..(Len(text) - 1)
    /\ \E j \in 1..i : text[j] \notin Whitespace /\ SameLine(text, j, i)
    /\ \E k \in (i + 1)..Len(text) : text[k] \notin Whitespace /\ SameLine(text, i + 1, k)
    /\ Vary("inside", Insert(text, i, " "))

\* a space is put at the start of a line that is not blank: of the first
\* such line of the text ("start_first") or of a later one ("start")
InsertAtStart(i) ==
    /\ npc = "drawn"
    /\ LineStart(text, i)
    /\ Vary(IF InkBefore(text, i) THEN "start" ELSE "start_first", Insert(text, i, " "))

\* one more empty line is put between two lines that are not blank
InsertBlank(i) ==
    /\ npc = "drawn"
    /\ i \in 1..Len(text)
    /\ text[i] = "\n" /\ InkBefore(text, i) /\ InkAfter(text, i)
    /\ Vary("blank", Insert(text, i, "\n"))

\* lines 232-234: both texts are normalized
Normalize ==
    /\ npc \in {"drawn", "varied"}
    /\ norm_text' = _normalize(text)
    /\ norm_other' = _normalize(other)
    /\ npc' = "normalized"
    /\ UNCHANGED <<text, other, edit, norm_twice>>
    /\ UNCHANGED <<localVars, dirs, files, concVars, sideVars>>

\* _normalize applied to its own result
NormalizeAgain ==
    /\ npc = "normalized"
    /\ norm_twice' = _normalize(norm_text)
    /\ npc' = "renormalized"
    /\ UNCHANGED <<text, other, edit, norm_text, norm_other>>
    /\ UNCHANGED <<localVars, dirs, files, concVars, sideVars>>

NextNorm ==
    \/ \E i \in 0..(MaxTextLen + 2) : Pad(i)
    \/ \E i \in 1..MaxTextLen, c \in Chars : SubstChar(i, c)
    \/ \E i \in 1..MaxTextLen : InsertInside(i)
    \/ \E i \in 0..MaxTextLen : InsertAtStart(i)
    \/ \E i \in 1..MaxTextLen : InsertBlank(i)
    \/ Normalize
    \/ NormalizeAgain

SpecNorm == InitNorm /\ [][NextNorm]_vars

----------------------------------------------------------------------------
(* The problem fetcher (src/services/problem_fetcher.py): calls of
   fetch_mixed_problems, one after the other, over the same cache file.
   The two APIs, the random choices and the writes of the cache file are the
   environment. *)

MaxCount == 2
MaxCalls == 2

\* everything of the evaluator but the cache file, the normalizer exercise
\* and the concurrent calls
callVarsButCache ==
    <<pc, tag, qkey, code, language, cacheReads, cacheWrites, problem, platform,
      samples, tmpdir, class_name, spawned, idx, passed, results, ret, exc,
      running, written, dirs, files, normVars, concVars>>

evalVarsButCache == <<callVarsButCache, laterVars>>

\* problems of the Codeforces API inside the rating range
CFProblems ==
    { [name |-> "Watermelon", rating |-> "1300", contestId |-> "4", index |-> "A"],
      [name |-> "Theatre Square", rating |-> "1500", contestId |-> "1", index |-> "A"] }

\* problems of the LeetCode API that are not paid-only; the second one has a
\* questionId that differs from its questionFrontendId
LCProblems ==
    { [title |-> "Two Sum", difficulty |-> "Medium", titleSlug |-> "two-sum",
       questionFrontendId |-> "1", questionId |-> "1"],
      [title |-> "Binary Gap", difficulty |-> "Medium", titleSlug |-> "binary-gap",
       questionFrontendId |-> "868", questionId |-> "899"] }

\* what an API call delivers: a list of candidates, or a failed request
CFResponses == {[status |-> "failed"]} \cup {[status |-> "OK", list |-> c] : c \in SUBSET CFProblems}
LCResponses == {[status |-> "failed"]} \cup {[status |-> "OK", list |-> c] : c \in SUBSET LCProblems}

Range(f) == {f[i] : i \in DOMAIN f}
Min(a, b) == IF a <= b THEN a ELSE b

\* f"q{i}"
QKeyOf(i) == <<"q1", "q2", "q3", "q4", "q5">>[i]

\* lines 17-34: the stored dict with the missing keys defaulted
load_cache(file) ==
    file @@ [used_problems |-> <<>>, situational_history |-> <<>>,
             last_selection |-> EmptyDict, codeforces_cache |-> EmptyDict,
             leetcode_cache |-> EmptyDict]

\* lines 36-42: a failed write is printed and dropped
save_cache(cache, written_ok) == IF written_ok THEN cache ELSE cacheFile

\* random.sample(fresh, n): n different elements of fresh in any order
RECURSIVE Arrangements(_, _)
Arrangements(S, n) ==
    IF n = 0 THEN {<<>>}
    ELSE UNION {{Append(t, x) : x \in S \ Range(t)} : t \in Arrangements(S, n - 1)}

\* the key of a Codeforces problem in used_problems, lines 84 and 106
cf_used_key(p) == <<"cf_", p.contestId, p.index>>

\* the key a LeetCode candidate is looked up with, line 231
lc_fresh_key(p) == <<"lc_", p.questionFrontendId>>

\* the key a selected LeetCode problem is stored with, line 249:
\* p['questionId'] of the API's dict
lc_used_key(p) == <<"lc_", p.questionId>>

\* lines 101-104
cf_result(p) ==
    [name |-> p.name, rating |-> p.rating,
     link |-> <<"https://codeforces.com/problemset/problem/", p.contestId, "/", p.index>>,
     contestId |-> p.contestId, index |-> p.index, platform |-> "codeforces"]

\* lines 244-247
lc_result(p) ==
    [name |-> p.title, difficulty |-> p.difficulty,
     link |-> <<"https://leetcode.com/problems/", p.titleSlug, "/">>,
     questionId |-> p.questionFrontendId, titleSlug |-> p.titleSlug,
     platform |-> "leetcode"]

\* lines 112-115, 254-257 and 316-325: the stored entry of the i-th problem
last_entry(ps, i) == [f \in DOMAIN ps[i] \ {"qkey"} |-> ps[i][f]]

\* lines 110-116 and 310-325: q1..qk for the list ps
selection_of(ps) == [q \in {QKeyOf(i) : i \in 1..Len(ps)} |->
                        last_entry(ps, CHOOSE i \in 1..Len(ps) : QKeyOf(i) = q)]

\* lines 119-120, 261-262 and 313
with_qkeys(ps) == [i \in 1..Len(ps) |-> [qkey |-> QKeyOf(i)] @@ [f \in DOMAIN ps[i] \ {"qkey"} |-> ps[i][f]]]

\* the bookkeeping of one single-platform fetch for the properties below
Log(cands, sel) ==
    /\ lastFetch' = [cands |-> cands, selected |-> sel, before |-> given]
    /\ given' = IF cands \subseteq given THEN sel ELSE given \cup sel

\* fetch_codeforces_problems(count = n), lines 57-123; its result is added
\* to `problems` (lines 280-281 and 296-297)
FetchCodeforces(n, resp, sel, written_ok) ==
    IF resp.status = "failed"
    THEN UNCHANGED <<cacheFile, problems, given, lastFetch>>
    ELSE LET cache == load_cache(cacheFile)
             used0 == cache.used_problems
             fresh0 == {p \in resp.list : cf_used_key(p) \notin Range(used0)}
             fresh == IF fresh0 = {} THEN resp.list ELSE fresh0
             used == IF fresh0 = {} THEN <<>> ELSE used0
             result == [i \in 1..Len(sel) |-> cf_result(sel[i])]
         IN /\ sel \in Arrangements(fresh, Min(n, Cardinality(fresh)))
            /\ cacheFile' = save_cache(
                   [cache EXCEPT !.used_problems =
                                     used \o [i \in 1..Len(sel) |-> cf_used_key(sel[i])],
                                 !.last_selection = selection_of(result)],
                   written_ok)
            /\ problems' = problems \o with_qkeys(result)
            /\ Log({p.name : p \in resp.list}, {sel[i].name : i \in 1..Len(sel)})

\* fetch_leetcode_problems(count = n), lines 190-265; its result is added
\* to `problems` (lines 286-287)
FetchLeetcode(n, resp, sel, written_ok) ==
    IF resp.status = "failed"
    THEN UNCHANGED <<cacheFile, problems, given, lastFetch>>
    ELSE LET cache == load_cache(cacheFile)
             used0 == cache.used_problems
             fresh0 == {p \in resp.list : lc_fresh_key(p) \notin Range(used0)}
             fresh == IF fresh0 = {} THEN resp.list ELSE fresh0
             used == IF fresh0 = {} THEN <<>> ELSE used0
             result == [i \in 1..Len(sel) |-> lc_result(sel[i])]
         IN /\ sel \in Arrangements(fresh, Min(n, Cardinality(fresh)))
            /\ cacheFile' = save_cache(
                   [cache EXCEPT !.used_problems =
                                     used \o [i \in 1..Len(sel) |-> lc_used_key(sel[i])],
                                 !.last_selection = selection_of(result) @@ cache.last_selection],
                   written_ok)
            /\ problems' = problems \o with_qkeys(result)
            /\ Log({p.title : p \in resp.list}, {sel[i].title : i \in 1..Len(sel)})

\* fetch_mixed_problems(count = c) is entered, lines 269-276
CallMixed(c) ==
    /\ fpc \in {"idle", "returned"} /\ ncalls < MaxCalls
    /\ fpc' = "cf" /\ count' = c /\ problems' = <<>> /\ fetched_list' = <<>>
    /\ ncalls' = ncalls + 1
    /\ UNCHANGED <<cacheFile, given, lastFetch, evalVarsButCache, hookVars, rateVars, shareVars>>

\* lines 279-283
MixedCodeforces(resp, sel, written_ok) ==
    /\ fpc = "cf"
    /\ FetchCodeforces(count \div 2, resp, sel, written_ok)
    /\ fpc' = "lc"
    /\ UNCHANGED <<count, fetched_list, ncalls, evalVarsButCache, hookVars, rateVars, shareVars>>

\* lines 285-292
MixedLeetcode(resp, sel, written_ok) ==
    /\ fpc = "lc"
    /\ FetchLeetcode(count - count \div 2, resp, sel, written_ok)
    /\ fpc' = IF Len(problems') < count THEN "backup" ELSE "final"
    /\ UNCHANGED <<count, fetched_list, ncalls, evalVarsButCache, hookVars, rateVars, shareVars>>

\* lines 292-299
MixedBackup(resp, sel, written_ok) ==
    /\ fpc = "backup"
    /\ FetchCodeforces(count - Len(problems), resp, sel, written_ok)
    /\ fpc' = "final"
    /\ UNCHANGED <<count, fetched_list, ncalls, evalVarsButCache, hookVars, rateVars, shareVars>>

\* lines 301-333: shuffle, cut to `count`, renumber, store, return
MixedFinal(order, written_ok) ==
    /\ fpc = "final"
    /\ order \in Arrangements(1..Len(problems), Len(problems))
    /\ LET shuffled == [i \in 1..Len(problems) |-> problems[order[i]]]
           cut == with_qkeys(Take(shuffled, count))
       IN /\ cacheFile' = save_cache(
                 [load_cache(cacheFile) EXCEPT !.last_selection = selection_of(cut)],
                 written_ok)
          /\ problems' = cut
          /\ fetched_list' = cut
    /\ fpc' = "returned"
    /\ UNCHANGED <<count, ncalls, given, lastFetch, evalVarsButCache, hookVars, rateVars, shareVars>>

InitFetch == InitRuns

NextFetch ==
    \/ \E c \in 1..MaxCount : CallMixed(c)
    \/ \E resp \in CFResponses, sel \in SeqsUpTo(CFProblems, MaxCount), w \in BOOLEAN :
          MixedCodeforces(resp, sel, w)
    \/ \E resp \in LCResponses, sel \in SeqsUpTo(LCProblems, MaxCount), w \in BOOLEAN :
          MixedLeetcode(resp, sel, w)
    \/ \E resp \in CFResponses, sel \in SeqsUpTo(CFProblems, MaxCount), w \in BOOLEAN :
          MixedBackup(resp, sel, w)
    \/ \E order \in SeqsUpTo(1..MaxCount, MaxCount), w \in BOOLEAN : MixedFinal(order, w)

SpecFetch == InitFetch /\ [][NextFetch]_vars

----------------------------------------------------------------------------
(* The Telegram webhook handler (src/services/api_wrapper.py, lines
   107-242) on text messages: the /start command, a solution submission or
   anything else.  The sender composes the message from a first word, a
   problem key, a language and a body. *)

\* str.startswith
startswith(s, prefix) ==
    Len(s) >= Len(prefix) /\ SubSeq(s, 1, Len(prefix)) = prefix

\* str.split(): the words between runs of whitespace
RECURSIVE split_words(_)
split_words(s) ==
    LET t == lstrip(s)
    IN IF t = <<>> THEN <<>>
       ELSE LET i == CHOOSE k \in 1..(Len(t) + 1) :
                         /\ (k = Len(t) + 1 \/ t[k] \in Whitespace)
                         /\ \A j \in 1..(k - 1) : t[j] \notin Whitespace
            IN <<SubSeq(t, 1, i - 1)>> \o split_words(SubSeq(t, i, Len(t)))

SOLUTION == <<"s","o","l","u","t","i","o","n">>
SLASH_SOLUTION == <<"/">> \o SOLUTION
START == <<"/","s","t","a","r","t">>

\* re.match(r"q[1-4]$", w)
is_qkey(w) == Len(w) = 2 /\ w[1] = "q" /\ w[2] \in {"1", "2", "3", "4"}

\* the tags the handler takes from the first line, lines 203 and 124 of bot.py
hook_languages ==
    { PYTHON, <<"p","y">>, JAVA, <<"c","+","+">>, CPP, <<"c","x","x">> }

\* lines 204-206
hook_language(w) ==
    IF w \in {<<"p","y">>, <<"p","y","t","h","o","n","3">>} THEN PYTHON
    ELSE IF w \in {<<"c","+","+">>, <<"c","x","x">>, <<"c","c">>} THEN CPP
    ELSE w

\* what the sender may type
FirstWords == {SOLUTION, SLASH_SOLUTION, <<"S","o","l","u","t","i","o","n">>,
               <<"h","e","l","l","o">>}
KeyWords == {<<"q","1">>, <<"q","4">>, <<"Q","2">>, <<"q","5">>, <<>>}
LanguageWords == {<<>>, <<"p","y">>, <<"J","a","v","a">>, CPP, PYTHON,
                  <<"c","+","+">>, <<"c","x","x">>, <<"c","c">>,
                  <<"p","y","t","h","o","n","3">>, <<"r","u","s","t">>}
Bodies == {<<>>, <<" ">>, <<"x">>, <<"x", "\n", " ", "y", "\n">>}

Composed ==
    {[word |-> START, q |-> <<>>, lang |-> <<>>, body |-> <<>>]}
    \cup {[word |-> w, q |-> q, lang |-> l, body |-> b] :
             w \in FirstWords, q \in KeyWords, l \in LanguageWords, b \in Bodies}

\* the text of a composed message: the words of the first line with one
\* space between them, a line break, the body
text_of(c) ==
    c.word \o (IF c.q = <<>> THEN <<>> ELSE <<" ">> \o c.q)
           \o (IF c.lang = <<>> THEN <<>> ELSE <<" ">> \o c.lang)
           \o (IF c.body = <<>> THEN <<>> ELSE <<"\n">> \o c.body)

\* the outcomes of requests.post to the evaluation webhook, lines 222-237
PostOutcomes == {"started", "timeout", "failed"}

\* the prefix of line 189
solution_prefix == SLASH_SOLUTION \o <<" ">>

\* lines 122-242 for a message with a chat id: the replies sent and the
\* payloads posted
handle_text(raw, post) ==
    LET txt == strip(raw)
        lines == splitlines(txt)
        first_line_parts == IF lines = <<>> THEN <<>> ELSE split_words(lower(strip(lines[1])))
        qk == IF Len(first_line_parts) >= 2 /\ is_qkey(first_line_parts[2])
              THEN first_line_parts[2] ELSE <<>>
        lg == IF Len(first_line_parts) >= 3 /\ first_line_parts[3] \in hook_languages
              THEN hook_language(first_line_parts[3]) ELSE CPP
        cd == IF Len(lines) < 2 THEN <<>> ELSE strip(join(Tail(lines)))
    IN IF txt = <<>> THEN [replies |-> <<>>, payload |-> <<>>]
       ELSE IF txt = START THEN [replies |-> <<"start">>, payload |-> <<>>]
       ELSE IF startswith(lower(txt), solution_prefix)
       THEN IF Len(lines) < 2 THEN [replies |-> <<"invalid format">>, payload |-> <<>>]
            ELSE IF qk = <<>> THEN [replies |-> <<"invalid first line">>, payload |-> <<>>]
            ELSE IF cd = <<>> THEN [replies |-> <<"no code">>, payload |-> <<>>]
            ELSE [replies |-> IF post = "started" THEN <<"got it">>
                              ELSE <<"got it", post>>,
                  payload |-> << [qkey |-> qk, language |-> lg, code |-> cd] >>]
       ELSE [replies |-> <<>>, payload |-> <<>>]

\* Telegram delivers an update with the text of composed message c
Deliver(c) ==
    /\ hpc = "idle"
    /\ hpc' = "received" /\ update' = text_of(c) /\ composed' = c
    /\ UNCHANGED <<replies, payload, evalVarsButCache, cacheFile, fetchVars, rateVars, shareVars>>

\* handle_telegram_update, lines 107-242
HandleUpdate(post) ==
    /\ hpc = "received"
    /\ LET r == handle_text(update, post)
       IN replies' = r.replies /\ payload' = r.payload
    /\ hpc' = "handled"
    /\ UNCHANGED <<update, composed, evalVarsButCache, cacheFile, fetchVars, rateVars, shareVars>>

InitHook == InitRuns

NextHook ==
    \/ \E c \in Composed : Deliver(c)
    \/ \E post \in PostOutcomes : HandleUpdate(post)

SpecHook == InitHook /\ [][NextHook]_vars

----------------------------------------------------------------------------
(* rate_limit of problem_fetcher.py, lines 44-55, called by the fetchers
   from the threads of the web server; a step is one line of rate_limit, and
   the clock advances between any two steps. *)

MaxTime == 6
MaxRequests == 2

outsideRate == <<evalVarsButCache, cacheFile, fetchVars, hookVars, shareVars>>

\* line 47: current_time = time.time()
ReadClock(t) ==
    /\ threads[t].pc = "idle" /\ threads[t].done < MaxRequests
    /\ threads' = [threads EXCEPT ![t].pc = "read", ![t].current_time = now]
    /\ UNCHANGED <<now, LAST_REQUEST_TIME, requests, outsideRate>>

\* lines 48-53: the global is read; the thread sleeps or goes on
Compare(t) ==
    /\ threads[t].pc = "read"
    /\ LET time_since_last == threads[t].current_time - LAST_REQUEST_TIME
       IN threads' = IF time_since_last < MIN_REQUEST_INTERVAL
                     THEN [threads EXCEPT ![t].pc = "sleep",
                                          ![t].wake = now + (MIN_REQUEST_INTERVAL - time_since_last)]
                     ELSE [threads EXCEPT ![t].pc = "stamp"]
    /\ UNCHANGED <<now, LAST_REQUEST_TIME, requests, outsideRate>>

\* time.sleep returns, not before the time slept for has passed
Wake(t) ==
    /\ threads[t].pc = "sleep" /\ now >= threads[t].wake
    /\ threads' = [threads EXCEPT ![t].pc = "stamp"]
    /\ UNCHANGED <<now, LAST_REQUEST_TIME, requests, outsideRate>>

\* line 55 and the request that follows it (lines 64, 144, 212)
IssueRequest(t) ==
    /\ threads[t].pc = "stamp"
    /\ LAST_REQUEST_TIME' = now
    /\ requests' = Append(requests, now)
    /\ threads' = [threads EXCEPT ![t].pc = "requesting"]
    /\ UNCHANGED <<now, outsideRate>>

\* the request ends and the fetcher returns
Respond(t) ==
    /\ threads[t].pc = "requesting"
    /\ threads' = [threads EXCEPT ![t].pc = "idle", ![t].done = @ + 1]
    /\ UNCHANGED <<now, LAST_REQUEST_TIME, requests, outsideRate>>

\* a second passes
Tick ==
    /\ now < MaxTime
    /\ now' = now + 1
    /\ UNCHANGED <<LAST_REQUEST_TIME, threads, requests, outsideRate>>

InitRate == InitRuns

NextRate ==
    \/ \E t \in Threads : ReadClock(t)
    \/ \E t \in Threads : Compare(t)
    \/ \E t \in Threads : Wake(t)
    \/ \E t \in Threads : IssueRequest(t)
    \/ \E t \in Threads : Respond(t)
    \/ Tick

SpecRate == InitRate /\ [][NextRate]_vars

----------------------------------------------------------------------------
(* The writers of the cache file: each loads the whole file into a dict,
   changes its own key and writes the whole dict back; nothing orders the
   writers (threads of the web server, the bot process). *)

outsideShare == <<evalVarsButCache, fetchVars, hookVars, rateVars>>

\* the questions the situational generator may pick
Questions == { <<"Tell me about a conflict in your team.">>,
               <<"Describe a deadline you missed.">> }

\* what each module's loader returns for the stored dict: evaluator.py lines
\* 26-34, problem_fetcher.py lines 17-34, situational_gen.py lines 144-154
loaded_by(w, file) == IF w = "fetch" THEN load_cache(file) ELSE file

\* the change a writer makes to its dict: evaluator.py lines 126-127 (u is the
\* sample list), problem_fetcher.py lines 106-116 (u is the problem),
\* situational_gen.py lines 268-272 (u is the question)
changed_by(w, cache, u) ==
    CASE w = "evaluation" ->
            [sample_cache |-> (<<CF_LINK>> :> u) @@ Get(cache, "sample_cache", EmptyDict)]
              @@ cache
      [] w = "fetch" ->
            [used_problems |-> Append(cache.used_problems, cf_used_key(u)),
             last_selection |-> selection_of(<<cf_result(u)>>)] @@ cache
      [] w = "situational" ->
            [situational_history |-> Append(Get(cache, "situational_history", <<>>), u)]
              @@ cache

Updates(w) ==
    CASE w = "evaluation" -> {CachedCF, CachedLC}
      [] w = "fetch" -> CFProblems
      [] w = "situational" -> Questions

\* the trace a writer's change leaves in the file
recorded(w, u) ==
    CASE w = "evaluation" -> u
      [] w = "fetch" -> cf_used_key(u)
      [] w = "situational" -> u

\* _load_cache / load_cache: evaluator.py line 111, problem_fetcher.py
\* line 82, situational_gen.py line 234
Load(w) ==
    /\ wpc[w] = "idle"
    /\ snap' = [snap EXCEPT ![w] = loaded_by(w, cacheFile)]
    /\ wpc' = [wpc EXCEPT ![w] = "loaded"]
    /\ UNCHANGED <<cacheFile, wrote, outsideShare>>

\* the change and _save_cache / save_cache: evaluator.py lines 126-128,
\* problem_fetcher.py lines 106-117, situational_gen.py lines 268-273
Save(w, u) ==
    /\ wpc[w] = "loaded"
    /\ cacheFile' = changed_by(w, snap[w], u)
    /\ wrote' = [wrote EXCEPT ![w] = recorded(w, u)]
    /\ wpc' = [wpc EXCEPT ![w] = "saved"]
    /\ UNCHANGED <<snap, outsideShare>>

InitShare == InitRuns

NextShare ==
    \/ \E w \in Writers : Load(w)
    \/ \E w \in Writers : \E u \in Updates(w) : Save(w, u)

SpecShare == InitShare /\ [][NextShare]_vars

----------------------------------------------------------------------------
(* Vocabulary of the properties *)

Ended == pc \in {"returned", "raised"}

\* the evaluator read the cache twice: in evaluate_solution and in the fetcher
Resolved == cacheReads = 2

\* the sample loop was entered: supported language, samples, build succeeded
LoopEntered == idx >= 1

CompilerRuns == SelectSeq(spawned, LAMBDA e : e.case = 0)
CandidateRuns == SelectSeq(spawned, LAMBDA e : e.case > 0)

ErrorPopulated(r) == "error" \in DOMAIN r /\ r.error # <<>>

\* the tags of the adapter table, in lower case
AdapterTags == { <<"c","p","p">>, <<"c","+","+">>, <<"c","x","x">>, <<"c","c">>,
                 <<"p","y","t","h","o","n">>, <<"p","y">>,
                 <<"p","y","t","h","o","n","3">>, <<"j","a","v","a">> }

----------------------------------------------------------------------------
(* C1: when a call of evaluate_solution that created a work directory has
   ended, by a return or by an exception handled on the way, the directory
   and the files in it no longer exist. *)
C1_WorkdirRemoved ==
    (Ended /\ tmpdir # NoDir) =>
        /\ tmpdir \notin dirs
        /\ \A f \in files : f[1] # tmpdir

\* an exception escaped a sample run after one case was recorded
C1_Witness ==
    /\ pc = "returned" /\ tmpdir # NoDir /\ tmpdir \notin dirs
    /\ Len(results) = 1
    /\ CandidateRuns[Len(CandidateRuns)].outcome.kind = "raised"

(* C2: when the sample loop was entered for N samples, the returned dict
   holds a results list of N entries, entry i numbered i and carrying the
   (truncated) input and expected text of sample i. *)
C2_ResultsFollowSamples ==
    (pc = "returned" /\ LoopEntered) =>
        /\ "results" \in DOMAIN ret
        /\ Len(ret.results) = Len(samples)
        /\ \A i \in 1..Len(samples) :
              /\ ret.results[i].case = i
              /\ ret.results[i].input = Take(samples[i][1], IO_LIMIT)
              /\ ret.results[i].expected = Take(samples[i][2], IO_LIMIT)

(* C3: once the sample loop was entered for N samples, the call ends with
   the candidate run exactly once for every sample, in sample order. *)
C3_EverySampleRun ==
    (Ended /\ LoopEntered) =>
        /\ Len(CandidateRuns) = Len(samples)
        /\ \A i \in 1..Len(samples) : CandidateRuns[i].case = i

(* C4: when starting the candidate for one sample raised something other
   than a timeout, the call still returns ok = true with N case results,
   the result of that case failed, and every sample was run. *)
C4_InfrastructureErrorIsolated ==
    (Ended /\ \E k \in DOMAIN CandidateRuns : CandidateRuns[k].outcome.kind = "raised") =>
        /\ pc = "returned"
        /\ ret.ok = TRUE
        /\ "results" \in DOMAIN ret
        /\ Len(ret.results) = Len(samples)
        /\ Len(CandidateRuns) = Len(samples)
        /\ \A k \in DOMAIN CandidateRuns :
              CandidateRuns[k].outcome.kind = "raised" => ret.results[k].ok = FALSE

(* C5 as claimed: on any platform, an empty resolved sample list gives
   ok = false with error populated, no case results, no work directory and
   no process. *)
C5_EmptySamplesAlwaysError ==
    (pc = "returned" /\ Resolved /\ samples = <<>>) =>
        /\ ret.ok = FALSE
        /\ ErrorPopulated(ret)
        /\ Get(ret, "results", <<>>) = <<>>
        /\ tmpdir = NoDir /\ dirs = {LeftoverDir}
        /\ spawned = <<>>

(* C5, amended: an empty resolved sample list ends the call with no case
   results, no work directory and no process; for a Codeforces problem the
   result is ok = false with error populated, for a LeetCode problem it is
   ok = true with a message and no error. *)
C5_EmptySamples ==
    (pc = "returned" /\ Resolved /\ samples = <<>>) =>
        /\ Get(ret, "results", <<>>) = <<>>
        /\ tmpdir = NoDir /\ dirs = {LeftoverDir}
        /\ spawned = <<>>
        /\ platform = "codeforces" => (ret.ok = FALSE /\ ErrorPopulated(ret))
        /\ platform = "leetcode" =>
              (ret.ok = TRUE /\ "error" \notin DOMAIN ret /\ "message" \in DOMAIN ret)

\* the LeetCode API delivered no example for the problem
C5_Witness ==
    /\ pc = "returned" /\ Resolved /\ samples = <<>>
    /\ platform = "leetcode" /\ ret.ok = TRUE

(* C6: when the compiler of a compiled language exits non-zero, the call
   returns ok = false, a non-empty compile_error (the first 2000 characters
   of the compiler's stderr) and an empty results list, and no sample is
   run, however many samples there are. *)
C6_BuildFailure ==
    (Ended /\ \E k \in DOMAIN CompilerRuns :
                  /\ CompilerRuns[k].outcome.kind = "completed"
                  /\ CompilerRuns[k].outcome.rc # 0) =>
        /\ pc = "returned"
        /\ ret.ok = FALSE
        /\ "compile_error" \in DOMAIN ret
        /\ ret.compile_error # <<>>
        /\ ret.compile_error = Take(CompilerRuns[1].outcome.stderr, COMPILE_ERROR_LIMIT)
        /\ ret.results = <<>>
        /\ CandidateRuns = <<>>

\* javac rejected the source of a problem with two samples
C6_Witness ==
    /\ pc = "returned" /\ language = JAVA /\ Len(samples) = 2
    /\ Len(CompilerRuns) = 1 /\ CompilerRuns[1].outcome.kind = "completed"
    /\ CompilerRuns[1].outcome.rc # 0
    /\ "compile_error" \in DOMAIN ret

(* C7: a call whose language tag is not in the adapter table returns an
   error at once: the cache is not read, no work directory is created and
   no process is started. *)
C7_UnsupportedLanguage ==
    (pc # "idle" /\ lower(tag) \notin AdapterTags) =>
        /\ pc = "returned"
        /\ ret.ok = FALSE /\ ErrorPopulated(ret)
        /\ cacheReads = 0 /\ cacheWrites = 0
        /\ tmpdir = NoDir /\ dirs = {LeftoverDir}
        /\ spawned = <<>>

\* the tag "cobol" was rejected
C7_Witness ==
    /\ pc = "returned" /\ tag = <<"c","o","b","o","l">>
    /\ ret.ok = FALSE /\ cacheReads = 0

(* C8: a call with a supported language that ends before a work directory
   exists, for any reason but an empty sample list, ends by returning
   ok = false with error populated: no exception reaches the caller and no
   process was started. *)
C8_ResolutionFailureReturnsError ==
    (Ended /\ is_supported(language) /\ tmpdir = NoDir
       /\ ~(pc = "returned" /\ Resolved)) =>
        /\ pc = "returned"
        /\ ret.ok = FALSE /\ ErrorPopulated(ret)
        /\ spawned = <<>>

(* C9: a case whose run completed is marked ok exactly when the exit code
   is 0 and the normalized full stdout equals the normalized full expected
   text; a non-zero exit gives ok = false with the exit code recorded and no
   timeout flag. *)
C9_CaseVerdict ==
    \A k \in DOMAIN CandidateRuns :
        (k <= Len(results) /\ CandidateRuns[k].outcome.kind = "completed") =>
            LET o == CandidateRuns[k].outcome
                r == results[k]
            IN /\ r.ok = ((o.rc = 0) /\ _normalize(o.stdout) = _normalize(samples[k][2]))
               /\ "exit_code" \in DOMAIN r /\ r.exit_code = o.rc
               /\ "timeout" \notin DOMAIN r
               /\ o.rc # 0 => r.ok = FALSE

\* one case crashed although its output matched, and one case differs from
\* the expected text only after the first IO_LIMIT characters
C9_Witness ==
    /\ pc = "returned" /\ Len(results) = 2
    /\ "exit_code" \in DOMAIN results[1] /\ "exit_code" \in DOMAIN results[2]
    /\ results[1].exit_code = 1 /\ results[1].ok = FALSE
    /\ _normalize(CandidateRuns[1].outcome.stdout) = _normalize(samples[1][2])
    /\ results[2].exit_code = 0 /\ results[2].ok = FALSE
    /\ results[2].got = results[2].expected

(* C10: a run that exceeds the timeout is recorded with ok = false and
   timeout = true and is not counted in passed; every case result carries
   either an exit code or timeout = true, never both and never neither. *)
C10_TimeoutDistinct ==
    /\ \A i \in DOMAIN results :
          ("exit_code" \in DOMAIN results[i])
              # ("timeout" \in DOMAIN results[i] /\ results[i].timeout = TRUE)
    /\ \A k \in DOMAIN CandidateRuns :
          (k <= Len(results) /\ CandidateRuns[k].outcome.kind = "timeout") =>
              /\ results[k].ok = FALSE
              /\ "timeout" \in DOMAIN results[k] /\ results[k].timeout = TRUE
    /\ passed = Cardinality({i \in DOMAIN results : results[i].ok})
    /\ passed <= Cardinality({k \in DOMAIN CandidateRuns :
                                 CandidateRuns[k].outcome.kind = "completed"})
    /\ pc = "returned" /\ LoopEntered /\ ret.ok = TRUE => ret.passed = passed

\* the first case timed out, the second ran and passed
C10_Witness ==
    /\ pc = "returned" /\ Len(results) = 2
    /\ "timeout" \in DOMAIN results[1] /\ results[1].ok = FALSE
    /\ "exit_code" \in DOMAIN results[2] /\ results[2].ok = TRUE
    /\ ret.ok = TRUE /\ ret.passed = 1

----------------------------------------------------------------------------
\* the sample loop ran to its end and evaluate_solution returned its result
Done == pc = "returned" /\ LoopEntered /\ idx = Len(samples) + 1

(* C11: when the sample loop has run to its end, the returned dict has
   ok = true, passed is the number of case results with ok = true, total is
   the number of samples, score is the integer nearest to
   100 * passed / total (the even one when two are equally near, which is
   what round() gives) and lies in 0..100, and the summary is
   "Passed P/T tests · Score: S%" with those passed, total and score. *)
C11_DoneResult ==
    Done =>
        /\ ret.ok = TRUE
        /\ ret.passed = Cardinality({i \in 1..Len(ret.results) : ret.results[i].ok})
        /\ ret.total = Len(samples)
        /\ ret.score \in 0..100
        /\ 2 * ret.score * ret.total - 200 * ret.passed \in (0 - ret.total)..ret.total
        /\ (2 * ret.score * ret.total - 200 * ret.passed \in {0 - ret.total, ret.total}
               => ret.score % 2 = 0)
        /\ ret.summary = <<"Passed ", ret.passed, "/", ret.total,
                           " tests · Score: ", ret.score, "%">>

\* one of eight samples passed: 12.5 is rounded to the even 12
C11_Witness ==
    /\ Done /\ ret.total = 8 /\ ret.passed = 1 /\ ret.score = 12
    /\ \E i \in 1..8 : ret.results[i].ok

----------------------------------------------------------------------------
(* C12: when a candidate run timed out, the process and every child it
   started have been terminated before the runner returns: once
   evaluate_solution has ended, no process started for the evaluation is
   still running. *)
C12_NoProcessLeft ==
    Ended => running = {}

----------------------------------------------------------------------------
(* C13: the compiler and every candidate run are started with a time
   ceiling, so a call of evaluate_solution that was made eventually ends,
   whatever the length of the sample list and also when the compiler or the
   candidate never exits on its own. *)
C13_EventuallyReturns ==
    (pc # "idle") ~> Ended

\* the candidate overran its time on every one of several samples, and the
\* call has returned
C13_Witness ==
    /\ Done /\ Len(samples) >= 2
    /\ Len(CandidateRuns) = Len(samples)
    /\ \A i \in 1..Len(CandidateRuns) : CandidateRuns[i].outcome.kind = "timeout"

----------------------------------------------------------------------------
\* call e has a work directory it has not removed yet
Working(e) == calls[e].pc \in {"write", "compile", "run", "cleanup"}

(* C14: two calls of evaluate_solution running at once, also for the same
   qkey and language, never have the same work directory, and no call reads,
   overwrites or removes a file that it did not write itself: the rmtree of
   one call deletes no file of the other. *)
C14_DistinctWorkdirs ==
    /\ \A e1, e2 \in DOMAIN calls :
          (e1 # e2 /\ Working(e1) /\ Working(e2))
             => calls[e1].tmpdir # calls[e2].tmpdir
    /\ \A t \in touched : t.of = t.by

\* two calls for the same qkey and language: the first has removed its
\* directory while the second, built, still has its source and artifact
C14_Witness ==
    /\ calls # <<>>
    /\ calls[1].pc = "done" /\ calls[2].pc = "run"
    /\ calls[1].qkey = calls[2].qkey /\ calls[1].language = calls[2].language
    /\ calls[2].language = CPP
    /\ [by |-> 1, op |-> "remove", of |-> 1] \in touched
    /\ {source_of(calls[2]), artifact_of(calls[2])} \subseteq files

----------------------------------------------------------------------------
\* the sample lists the cache file may hold before the call
CachedBefore == (<<CF_LINK>> :> CachedCF) @@ (lc_cache_key(LC_SLUG) :> CachedLC)

\* the key under which the samples of the resolved problem are cached
SampleKey ==
    IF platform = "codeforces" THEN <<problem.link>>
    ELSE lc_cache_key(problem.titleSlug)

\* what lies under SUBMISSIONS_DIR outside the work directory of the call is
\* what lay there before the call
OutsideUntouched ==
    /\ dirs \ {tmpdir} = {LeftoverDir}
    /\ {f \in files : f[1] # tmpdir} = {<<LeftoverDir, <<"q1", ".cpp">>>>}

(* C15, as stated: a call of evaluate_solution changes no file outside its
   own work directory; in particular it never writes the cache file. *)
C15_NoFileOutsideWorkdirWritten ==
    OutsideUntouched /\ cacheWrites = 0

(* C15, amended: outside its own work directory a call of evaluate_solution
   changes nothing under SUBMISSIONS_DIR, and the one file it writes is the
   cache file, at most once: when the samples of the problem were not cached
   and the fetch gave a non-empty list, that list is stored in sample_cache
   under the key of the problem, while last_selection and the other cached
   lists stay as they were. *)
C15_OnlySampleCacheWritten ==
    /\ OutsideUntouched
    /\ cacheFile.last_selection = LastSelection
    /\ cacheWrites \in {0, 1}
    /\ \A k \in DOMAIN cacheFile.sample_cache :
          \/ k \in DOMAIN CachedBefore /\ cacheFile.sample_cache[k] = CachedBefore[k]
          \/ cacheWrites = 1 /\ k = SampleKey
    /\ cacheWrites = 1 =>
          /\ samples # <<>>
          /\ SampleKey \in DOMAIN cacheFile.sample_cache
          /\ cacheFile.sample_cache[SampleKey] = samples

\* a call ran its samples to the end after it had cached them next to a
\* list that was cached before
C15_Witness ==
    /\ Done /\ cacheWrites = 1
    /\ DOMAIN cacheFile.sample_cache = {<<CF_LINK>>, lc_cache_key(LC_SLUG)}

----------------------------------------------------------------------------
\* two tags are the same up to the case of their letters
SameTag(a, b) ==
    /\ Len(a) = Len(b)
    /\ \A i \in 1..Len(a) :
          \/ a[i] = b[i]
          \/ \E k \in 1..26 : {a[i], b[i]} = {UpperCase[k], LowerCase[k]}

\* the adapter table of the specification
AdapterFor(t) ==
    IF \E x \in {<<"c","p","p">>, <<"c","+","+">>, <<"c","x","x">>, <<"c","c">>} :
          SameTag(t, x)
    THEN "native"
    ELSE IF \E x \in {<<"p","y","t","h","o","n">>, <<"p","y">>,
                       <<"p","y","t","h","o","n","3">>} : SameTag(t, x)
    THEN "interpreted"
    ELSE IF SameTag(t, <<"j","a","v","a">>) THEN "bytecode"
    ELSE "unsupported"

\* the processes an adapter starts, and the source file it writes
ProcessesOf(a) ==
    IF a = "native" THEN {"g++", "exe"}
    ELSE IF a = "interpreted" THEN {"python"}
    ELSE IF a = "bytecode" THEN {"javac", "java"}
    ELSE {}

SourceSuffixOf(a) ==
    IF a = "native" THEN ".cpp" ELSE IF a = "interpreted" THEN ".py" ELSE ".java"

\* the source file of the call under adapter a
source_name_of(a) ==
    IF a = "bytecode" THEN <<class_name, SourceSuffixOf(a)>>
    ELSE <<qkey, SourceSuffixOf(a)>>

LanguageOf(a) ==
    IF a = "native" THEN CPP ELSE IF a = "interpreted" THEN PYTHON ELSE JAVA

(* C16: the language tag is resolved without regard to case: cpp, c++, cxx
   and cc select the native adapter, python, py and python3 the interpreted
   one, java the bytecode one, and any other tag is answered with the
   unsupported-language error; the source written and the processes started
   by a call are those of the adapter its tag selects, and no others. *)
C16_AdapterOfTag ==
    pc # "idle" =>
        LET a == AdapterFor(tag)
        IN /\ a = "unsupported" =>
                 /\ pc = "returned" /\ ret.ok = FALSE
                 /\ ret.error = <<"Language '", language, "' not supported">>
           /\ a # "unsupported" =>
                 /\ language = LanguageOf(a)
                 /\ Done => ret.language = LanguageOf(a)
                 /\ LoopEntered /\ ~Ended =>
                       \E f \in files : f[1] = tmpdir /\ f[2] = source_name_of(a)
           /\ \A i \in 1..Len(spawned) : spawned[i].proc \in ProcessesOf(a)
           /\ LoopEntered =>
                 ProcessesOf(a) \ {"exe", "python", "java"}
                    \subseteq {spawned[i].proc : i \in 1..Len(spawned)}
           /\ Done => {spawned[i].proc : i \in 1..Len(spawned)} = ProcessesOf(a)

\* the tag "CC" was built with g++ and its binary run on the samples
C16_Witness ==
    /\ Done /\ tag = <<"C","C">>
    /\ {spawned[i].proc : i \in 1..Len(spawned)} = {"g++", "exe"}

----------------------------------------------------------------------------
\* both texts have been normalized
Normalized == npc \in {"normalized", "renormalized"}

(* C17: normalizing a normalized text changes nothing:
   _normalize(_normalize(x)) = _normalize(x) for every text x. *)
C17_Idempotent ==
    npc = "renormalized" => norm_twice = norm_text

\* a text of two lines that its normalization changed was normalized twice
C17_Witness ==
    /\ npc = "renormalized"
    /\ norm_text # text /\ norm_text # <<>>
    /\ \E i \in 1..Len(norm_text) : norm_text[i] = "\n"

(* C18: a text y made from a text x by appending spaces to lines of x and
   line breaks to its end has the normalization of x. *)
C18_TrailingWhitespaceIgnored ==
    (Normalized /\ edit = "pad") => norm_other = norm_text

\* a space was appended to the first of two lines that are not blank
C18_Witness ==
    /\ Normalized /\ edit = "pad"
    /\ \E i \in 1..(Len(other) - 1) : other[i] = " " /\ other[i + 1] = "\n"
    /\ \E i \in 1..Len(norm_text) : norm_text[i] = "\n"

\* the procedure of the specification: split at the line boundaries,
\* right-trim each line, join with one newline, trim the whole
specified_normalize(s) ==
    LET split == splitlines(s)
    IN strip(join([k \in DOMAIN split |-> rstrip(split[k])]))

(* C19: for every text _normalize gives a result, and it is the one of the
   specified procedure (split at the line boundaries, right-trim each line,
   join with a single newline, trim the whole); the empty text gives the
   empty text. *)
C19_AsSpecified ==
    Normalized =>
        /\ norm_text = specified_normalize(text)
        /\ norm_other = specified_normalize(other)
        /\ norm_text \in Seq(Chars)
        /\ text = <<>> => norm_text = <<>>

\* a text that starts with a blank line and ends in whitespace was normalized
C19_Witness ==
    /\ Normalized /\ Len(text) >= 3
    /\ text[1] \in LineBreaks /\ text[Len(text)] \in Whitespace
    /\ norm_text # <<>>

\* the changes the claim calls significant
Significant == {"char", "inside", "start", "start_first", "blank"}

(* C20, as stated: two texts that differ in a character other than
   whitespace, in whitespace inside or at the start of a line, or in the
   number of blank lines between two lines that are not blank, never have
   the same normalization. *)
C20_OnlyTrailingIgnored ==
    (Normalized /\ edit \in Significant) => norm_other # norm_text

(* C20, amended: besides trailing whitespace the normalization also ignores
   the whitespace before the first character of the text that is not
   whitespace; two texts that differ in a character other than whitespace,
   in whitespace inside a line, in whitespace at the start of a non-blank
   line other than the first one, or in the number of blank lines between
   two lines that are not blank, never have the same normalization, so an
   output that differs so from the expected text fails its case. *)
C20_SignificantDifferences ==
    /\ (Normalized /\ edit \in Significant \ {"start_first"}) =>
          norm_other # norm_text /\ ~case_ok(0, other, text)
    /\ (Normalized /\ edit = "start_first") => norm_other = norm_text

\* the second line of a text was indented, and the normalizations differ
C20_Witness ==
    /\ Normalized /\ edit = "start"
    /\ norm_other # norm_text
    /\ \E i \in 1..(Len(other) - 2) :
          other[i] = "\n" /\ other[i + 1] = " " /\ other[i + 2] \notin Whitespace

----------------------------------------------------------------------------
(* C21: in a call for a compiled language the compiler is started once, on
   the one source file written, before any run of the candidate, and every
   run loads the artifact that compilation left; in a call for the
   interpreted language no compiler is started, the source is written once
   and every run loads it. *)
C21_BuildOnceBeforeRuns ==
    /\ Len(written) <= 1
    /\ Len(CompilerRuns) <= 1
    /\ AdapterFor(tag) = "interpreted" => CompilerRuns = <<>>
    /\ \A i \in 2..Len(spawned) : spawned[i].case > 0
    /\ CandidateRuns # <<>> =>
          /\ Len(written) = 1
          /\ IF AdapterFor(tag) = "interpreted"
             THEN \A i \in 1..Len(spawned) : spawned[i].file = written[1]
             ELSE /\ spawned[1].case = 0
                  /\ spawned[1].outcome.kind = "completed" /\ spawned[1].outcome.rc = 0
                  /\ spawned[1].src = written[1]
                  /\ \A i \in 2..Len(spawned) : spawned[i].file = spawned[1].out

\* a Java source was compiled once and its class run on two samples
C21_Witness ==
    /\ Done /\ language = JAVA
    /\ Len(CompilerRuns) = 1 /\ Len(CandidateRuns) = 2
    /\ spawned[3].file = spawned[1].out

----------------------------------------------------------------------------
\* the outcomes the candidate runs of the call met, in order
RunOutcomesMet == [i \in 1..Len(CandidateRuns) |-> CandidateRuns[i].outcome]

\* the case results that follow from samples smp and run outcomes outs alone
CaseResultsOf(smp, outs) ==
    [i \in 1..Len(outs) |->
        IF outs[i].kind = "timeout"
        THEN timeout_result(i, smp[i][1], smp[i][2])
        ELSE case_result(i, smp[i][1], smp[i][2],
                         outs[i].rc, outs[i].stdout, outs[i].stderr)]

\* the result that follows from the request (q, t), the samples and the
\* outcomes of the runs alone
VerdictOf(q, t, smp, outs) ==
    LET res == CaseResultsOf(smp, outs)
        p == Cardinality({i \in 1..Len(res) : res[i].ok})
        n == Len(smp)
        s100 == score_of(p, n)
        base == [ok |-> TRUE, passed |-> p, total |-> n, results |-> res,
                 score |-> s100,
                 summary |-> <<"Passed ", p, "/", n, " tests · Score: ", s100, "%">>,
                 problem |-> LastSelection[q], language |-> resolve_language(t),
                 platform |-> LastSelection[q].platform]
    IN IF LastSelection[q].platform = "leetcode"
       THEN [note |-> <<"Limited test cases. Submit on LeetCode for full validation.">>]
              @@ base
       ELSE base

(* C22: the result of a call whose sample loop ran to its end is a function
   of the problem reference, the language tag, the sample list and the
   outcomes of the candidate runs, and the result of a rejected build is a
   function of the request and the compiler's diagnostics: what a call
   returns does not depend on the work directory it got, on what earlier
   calls left in the cache file or under the submissions directory, or on
   whether the samples came from the cache. *)
C22_VerdictDetermined ==
    /\ Done => ret = VerdictOf(qkey, tag, samples, RunOutcomesMet)
    /\ (pc = "returned" /\ "compile_error" \in DOMAIN ret) =>
          ret = [ok |-> FALSE, summary |-> <<"Compilation failed">>,
                 compile_error |-> Take(spawned[1].outcome.stderr, COMPILE_ERROR_LIMIT),
                 results |-> <<>>,
                 problem |-> LastSelection[qkey], language |-> resolve_language(tag),
                 platform |-> LastSelection[qkey].platform]

\* a call that found its samples in the cache, stored by an earlier call,
\* ran both to the end with one passing
C22_Witness ==
    /\ Done /\ cacheWrites = 0 /\ tmpdir # LeftoverDir
    /\ Len(results) = 2 /\ ret.passed = 1

----------------------------------------------------------------------------
IsPrefix(a, b) == Len(a) <= Len(b) /\ SubSeq(b, 1, Len(a)) = a

\* what a process wrote to a stream, as far as subprocess.run handed it over:
\* nothing when the run timed out
Raw(o, stream) == IF stream \in DOMAIN o THEN o[stream] ELSE <<>>

\* field f of the i-th case result is a copy, cut to n characters, of raw
CutCopy(i, f, raw, n) ==
    Len(ret.results[i][f]) <= n /\ IsPrefix(ret.results[i][f], raw)

\* the case results of a returned dict
Cases == IF pc = "returned" /\ "results" \in DOMAIN ret THEN 1..Len(ret.results) ELSE {}

\* the top-level error is one of the fixed messages around a tag, a qkey, a
\* platform name or the text of an exception
ErrorBounded ==
    ErrorPopulated(ret) =>
        /\ Len(ret.error) <= 3
        /\ ret.error[1] \in {"Language '", "No problem found for ", "Platform '",
                              "LeetCode problem missing titleSlug",
                              "Samples unavailable", "Evaluation error: "}
        /\ ret.error[1] = "Evaluation error: " => ret.error[2] \in {"build", "run"}

CompileErrorBounded ==
    (pc = "returned" /\ "compile_error" \in DOMAIN ret) =>
        /\ Len(ret.compile_error) <= COMPILE_ERROR_LIMIT
        /\ IsPrefix(ret.compile_error, spawned[1].outcome.stderr)

(* C23, as stated: in every case result input, expected and got are copies
   of at most 1000 characters and stderr of at most 500 characters, each a
   prefix of the raw text; compile_error is a prefix of at most 2000
   characters of the diagnostics; the top-level error is bounded whatever
   the compiler and the candidate wrote. *)
C23_AllFieldsPrefixes ==
    /\ \A i \in Cases :
          /\ CutCopy(i, "input", samples[i][1], IO_LIMIT)
          /\ CutCopy(i, "expected", samples[i][2], IO_LIMIT)
          /\ CutCopy(i, "got", Raw(CandidateRuns[i].outcome, "stdout"), IO_LIMIT)
          /\ CutCopy(i, "stderr", Raw(CandidateRuns[i].outcome, "stderr"), STDERR_LIMIT)
    /\ CompileErrorBounded
    /\ ErrorBounded

(* C23, amended: as stated, except that the stderr of a case that timed out
   is not a copy of what the candidate wrote but the fixed text
   "Time Limit Exceeded" (and its got is empty). *)
C23_FieldsBounded ==
    /\ \A i \in Cases :
          /\ CutCopy(i, "input", samples[i][1], IO_LIMIT)
          /\ CutCopy(i, "expected", samples[i][2], IO_LIMIT)
          /\ Len(ret.results[i].got) <= IO_LIMIT
          /\ Len(ret.results[i].stderr) <= STDERR_LIMIT
          /\ IF CandidateRuns[i].outcome.kind = "timeout"
             THEN ret.results[i].got = <<>> /\ ret.results[i].stderr = TLE_TEXT
             ELSE /\ IsPrefix(ret.results[i].got, CandidateRuns[i].outcome.stdout)
                  /\ IsPrefix(ret.results[i].stderr, CandidateRuns[i].outcome.stderr)
    /\ CompileErrorBounded
    /\ ErrorBounded

\* a case with more than 1000 characters of input and output and more than
\* 500 of stderr was reported next to one that timed out
C23_Witness ==
    /\ Done /\ Len(ret.results) = 2
    /\ Len(samples[1][1]) > IO_LIMIT /\ Len(ret.results[1].input) = IO_LIMIT
    /\ "exit_code" \in DOMAIN ret.results[1]
    /\ Len(CandidateRuns[1].outcome.stdout) > IO_LIMIT
    /\ Len(CandidateRuns[1].outcome.stderr) > STDERR_LIMIT
    /\ Len(ret.results[1].stderr) = STDERR_LIMIT
    /\ "timeout" \in DOMAIN ret.results[2]

----------------------------------------------------------------------------
\* n is the name after the first "public class" of source c, or "Solution"
\* when c has no "public class"
EntryIs(c, n) ==
    LET hits == {k \in 1..(Len(c) - 2) : c[k] = "public" /\ c[k + 1] = "class"}
    IN \/ hits = {} /\ n = "Solution"
       \/ \E k \in hits : c[k + 2] = n /\ \A h \in hits : h >= k

(* C24: in a call for Java the entry name is the name that follows the
   first "public class" of the source, or "Solution" when the source has
   none; the source is written and compiled as <name>.java and every run
   loads the class of that name. *)
C24_EntryClass ==
    (language = JAVA /\ written # <<>>) =>
        /\ EntryIs(code, class_name)
        /\ written = << <<class_name, ".java">> >>
        /\ spawned[1].case = 0 /\ spawned[1].src = <<class_name, ".java">>
        /\ \A i \in 2..Len(spawned) : spawned[i].file = <<class_name, ".class">>

\* of two public classes the first gave the name, for the file and both runs
C24_Witness ==
    /\ Done /\ code = TwoClassCode /\ class_name = "First"
    /\ Len(spawned) = 3 /\ spawned[3].file = <<"First", ".class">>

----------------------------------------------------------------------------
\* the compiler was started and did not end with exit code 0: it exited
\* non-zero, could not be started, or ran into its ceiling
BuildStepFailed ==
    /\ CompilerRuns # <<>>
    /\ ~(spawned[1].outcome.kind = "completed" /\ spawned[1].outcome.rc = 0)

\* the compiler ran to its end and exited non-zero
BuildExitedNonZero ==
    /\ CompilerRuns # <<>>
    /\ spawned[1].outcome.kind = "completed" /\ spawned[1].outcome.rc # 0

\* an empty sample list was resolved
NoSamplesResolved == Resolved /\ samples = <<>> /\ spawned = <<>>

(* C25 as stated: no result has both error and compile_error, a result for
   an empty sample list has no compile_error, and every failure of the
   build step is reported in compile_error and not in error. *)
C25_BuildFailureNeverInError ==
    pc = "returned" =>
        /\ ~("error" \in DOMAIN ret /\ "compile_error" \in DOMAIN ret)
        /\ NoSamplesResolved => "compile_error" \notin DOMAIN ret
        /\ BuildStepFailed =>
              ("compile_error" \in DOMAIN ret /\ "error" \notin DOMAIN ret)

(* C25, amended: no result has both error and compile_error; a result for
   an empty sample list has no compile_error; compile_error is set exactly
   when the compiler exited non-zero, and then error is not set; a compiler
   that could not be started or exceeded its ceiling is reported in error
   ("Evaluation error: ...") and compile_error is not set. *)
C25_DistinctFields ==
    pc = "returned" =>
        /\ ~("error" \in DOMAIN ret /\ "compile_error" \in DOMAIN ret)
        /\ NoSamplesResolved => "compile_error" \notin DOMAIN ret
        /\ "compile_error" \in DOMAIN ret <=> BuildExitedNonZero
        /\ (BuildStepFailed /\ ~BuildExitedNonZero) =>
              /\ ErrorPopulated(ret) /\ ret.error[1] = "Evaluation error: "
              /\ "compile_error" \notin DOMAIN ret

\* the compiler exited with 1 and its diagnostics are in compile_error
C25_Witness ==
    /\ pc = "returned" /\ BuildExitedNonZero
    /\ ret.compile_error = <<"e","r","r","o","r">> /\ "error" \notin DOMAIN ret

----------------------------------------------------------------------------
(* C26: when fetch_mixed_problems(count) has returned k problems, k <= count,
   the i-th problem has qkey q{i}, and the last_selection of the cache file
   has exactly the keys q1..qk, q{i} holding name, link and platform of the
   i-th returned problem. *)
C26_SelectionMatchesReturned ==
    fpc = "returned" =>
        LET k == Len(fetched_list)
            last == load_cache(cacheFile).last_selection
        IN /\ k <= count
           /\ \A i \in 1..k : fetched_list[i].qkey = QKeyOf(i)
           /\ DOMAIN last = {QKeyOf(i) : i \in 1..k}
           /\ \A i \in 1..k :
                 /\ last[QKeyOf(i)].name = fetched_list[i].name
                 /\ last[QKeyOf(i)].link = fetched_list[i].link
                 /\ last[QKeyOf(i)].platform = fetched_list[i].platform

(* C29: a single-platform fetch hands out a problem that was handed out
   before only if every candidate of that fetch was handed out before. *)
C29_NoRepeatWhileUnused ==
    (lastFetch.selected \cap lastFetch.before # {}) =>
        lastFetch.cands \subseteq lastFetch.before

----------------------------------------------------------------------------
\* the language the evaluator would run a submission with tag l in
SubmittedLanguage(l) == IF l = <<>> THEN CPP ELSE resolve_language(l)

(* C30: a message whose first line is "solution qX [lang]" with X in 1..4
   and whose body has code is forwarded to the evaluation webhook, once,
   with that qkey, language and code. *)
C30_SubmissionForwarded ==
    ( /\ hpc = "handled"
      /\ composed.word = SOLUTION
      /\ is_qkey(composed.q)
      /\ strip(composed.body) # <<>> ) =>
        payload = << [qkey |-> composed.q,
                      language |-> SubmittedLanguage(composed.lang),
                      code |-> strip(composed.body)] >>

----------------------------------------------------------------------------
(* C27: when every writer of the cache file has saved, the file holds the
   update of each of them: the evaluation's sample list, the fetch's used
   problem, the generator's question. *)
C27_NoLostUpdate ==
    (\A w \in Writers : wpc[w] = "saved") =>
        /\ <<CF_LINK>> \in DOMAIN Get(cacheFile, "sample_cache", EmptyDict)
        /\ cacheFile.sample_cache[<<CF_LINK>>] = wrote["evaluation"]
        /\ wrote["fetch"] \in Range(Get(cacheFile, "used_problems", <<>>))
        /\ wrote["situational"] \in Range(Get(cacheFile, "situational_history", <<>>))

(* C28: any two outbound requests issued one after the other are at least
   MIN_REQUEST_INTERVAL seconds apart. *)
C28_RequestsSpaced ==
    \A i \in 1..(Len(requests) - 1) :
        requests[i + 1] - requests[i] >= MIN_REQUEST_INTERVAL

----------------------------------------------------------------------------
(* C31: a forwarded submission whose first line names a tag the evaluator
   accepts carries a language that the evaluator resolves to the adapter of
   that tag. *)
C31_TagKeepsAdapter ==
    ( /\ hpc = "handled" /\ payload # <<>>
      /\ lower(composed.lang) \in AdapterTags ) =>
        resolve_language(payload[1].language) = resolve_language(composed.lang)

----------------------------------------------------------------------------
(* GET /mixed-problems (src/services/api_wrapper.py, lines 51-55) followed
   by a submission under one of the keys it stored: the body of
   POST /evaluate is validated against EvaluateRequest (lines 70-73), a
   chat submission against the pattern of line 196. *)

\* Query(2, ge=1, le=5), line 52
MaxQueryCount == 5

\* a third LeetCode problem, so that five problems can be delivered
KeyLCProblems ==
    LCProblems \cup
    { [title |-> "Add Two Numbers", difficulty |-> "Medium", titleSlug |-> "add-two-numbers",
       questionFrontendId |-> "2", questionId |-> "2"] }

KeyCFResponses == {[status |-> "failed"], [status |-> "OK", list |-> CFProblems]}
KeyLCResponses == {[status |-> "failed"], [status |-> "OK", list |-> KeyLCProblems]}

\* the characters of a key
qkey_text(q) ==
    [q1 |-> <<"q","1">>, q2 |-> <<"q","2">>, q3 |-> <<"q","3">>,
     q4 |-> <<"q","4">>, q5 |-> <<"q","5">>, q6 |-> <<"q","6">>][q]

\* Field(..., pattern=r"^q[1-4]$"), line 71
qkey_pattern(w) == Len(w) = 2 /\ w[1] = "q" /\ w[2] \in {"1", "2", "3", "4"}

\* lines 70-73: the body is an EvaluateRequest, or the request is refused
\* with status 422 before the handler runs
validates(r) == qkey_pattern(qkey_text(r.qkey)) /\ Len(r.code) >= 1

outsideApi ==
    <<callVarsButCache, cacheFile, fetchVars, hookVars, rateVars, shareVars,
      situVars, genVars>>

\* a request reaches POST /evaluate
PostEvaluate(q, l, c) ==
    /\ apc = "idle"
    /\ req' = [qkey |-> q, language |-> l, code |-> c]
    /\ apc' = IF validates(req') THEN "validated" ELSE "rejected"
    /\ UNCHANGED <<response, outsideApi>>

\* lines 51-55
GetMixedProblems(c) == ncalls = 0 /\ CallMixed(c)

\* the problem of key q, as returned, is what the cache file holds under q
stored(q) ==
    /\ q \in DOMAIN load_cache(cacheFile).last_selection
    /\ \E i \in 1..Len(fetched_list) :
          /\ fetched_list[i].qkey = q
          /\ cacheFile.last_selection[q] = last_entry(fetched_list, i)

\* the user submits a solution of a problem of the list
SubmitStored(q) ==
    /\ fpc = "returned" /\ stored(q)
    /\ PostEvaluate(q, CPP, PlainCode)

InitKeys == InitRuns

NextKeys ==
    \/ \E c \in 1..MaxQueryCount : GetMixedProblems(c)
    \/ \E resp \in KeyCFResponses, sel \in SeqsUpTo(CFProblems, MaxQueryCount), w \in BOOLEAN :
          MixedCodeforces(resp, sel, w)
    \/ \E resp \in KeyLCResponses, sel \in Arrangements(KeyLCProblems, Min(count - count \div 2, Cardinality(KeyLCProblems))), w \in BOOLEAN :
          MixedLeetcode(resp, sel, w)
    \/ \E resp \in KeyCFResponses, sel \in SeqsUpTo(CFProblems, MaxQueryCount), w \in BOOLEAN :
          MixedBackup(resp, sel, w)
    \/ \E order \in Arrangements(1..Len(problems), Len(problems)), w \in BOOLEAN :
          MixedFinal(order, w)
    \/ \E q \in QKeys : SubmitStored(q)

SpecKeys == InitKeys /\ [][NextKeys]_vars

(* C32: every key under which GET /mixed-problems stored a problem is
   accepted by the validation of POST /evaluate and by the chat handlers'
   pattern for the key. *)
C32_StoredKeysAccepted ==
    (fpc = "returned" /\ apc # "idle") =>
        apc = "validated" /\ is_qkey(qkey_text(req.qkey))

----------------------------------------------------------------------------
(* The situational question generator (src/services/situational_gen.py,
   lines 160-282): calls of generate_situational_question, one after the
   other, on one day.  The text the model generates, the draws from the
   bank and the write of the cache file are the environment. *)

MaxSituCalls == 2

\* the default of max_retries, line 232, and the limit of line 263
MAX_RETRIES == 3
MAX_ALTERNATIVES == 5
\* the windows of lines 248, 263 and 179, and the cut of line 271
AI_WINDOW == 15
RECENT_WINDOW == 10
BANK_WINDOW == 20
HISTORY_LIMIT == 100

\* QUESTION_BANK[category] for the category of the day, lines 57-142: every
\* category has ten questions
Bank == {"b01", "b02", "b03", "b04", "b05", "b06", "b07", "b08", "b09", "b10"}
BankInOrder == <<"b01", "b02", "b03", "b04", "b05", "b06", "b07", "b08", "b09", "b10">>
\* ten questions of the category of another day
OtherDay == <<"c01", "c02", "c03", "c04", "c05", "c06", "c07", "c08", "c09", "c10">>

\* what generate_ai_question_with_context returns, lines 189-230: nothing,
\* or a text, which can be one the bank holds
AIResults == {None, "a1", "a2", "b01"}

\* the situational_history of the cache file before the first call
Histories ==
    { <<>>, <<"a1">>, SubSeq(BankInOrder, 1, 5), BankInOrder,
      BankInOrder \o OtherDay, OtherDay \o BankInOrder }

\* h[-n:]
last(h, n) == IF Len(h) <= n THEN h ELSE SubSeq(h, Len(h) - n + 1, Len(h))

\* lines 144-154 and 163, 235: cache.get("situational_history", [])
situational_history(file) == Get(file, "situational_history", <<>>)

\* lines 179-183: the questions random.choice draws from; h is the history
\* of the cache file
any_of_bank(h) == Bank
available_questions(h) ==
    LET fresh == {q \in Bank : q \notin Range(last(h, BANK_WINDOW))}
    IN IF fresh = {} THEN Bank ELSE fresh

outsideSitu ==
    <<callVarsButCache, fetchVars, hookVars, rateVars, shareVars, apiVars, genVars>>

\* lines 232-241
GenerateSituational(use_ai) ==
    /\ spc \in {"idle", "returned", "raised"} /\ scalls < MaxSituCalls
    /\ scalls' = scalls + 1
    /\ history' = situational_history(cacheFile)
    /\ question' = None /\ source' = "bank"
    /\ attempt' = 0 /\ attempts' = 0
    /\ spc' = IF use_ai THEN "ai" ELSE "bank"
    /\ UNCHANGED <<cacheFile, outsideSitu>>

\* lines 242-255: one round of the loop over range(max_retries)
AIAttempt(result) ==
    /\ spc = "ai" /\ attempt < MAX_RETRIES
    /\ attempt' = attempt + 1
    /\ source' = IF result # None THEN "ai" ELSE source
    /\ question' = IF result # None /\ result \notin Range(last(history, AI_WINDOW))
                   THEN result ELSE None
    /\ spc' = IF question' # None THEN "recent"
              ELSE IF attempt' = MAX_RETRIES THEN "bank" ELSE "ai"
    /\ UNCHANGED <<history, attempts, scalls, cacheFile, outsideSitu>>

\* lines 257-260 with lines 160-187
BankFallback(q) ==
    /\ spc = "bank"
    /\ q \in available_questions(situational_history(cacheFile))
    /\ question' = q /\ source' = "bank"
    /\ spc' = "recent"
    /\ UNCHANGED <<history, attempt, attempts, scalls, cacheFile, outsideSitu>>

\* the condition of line 263
draws_again == question \in Range(last(history, RECENT_WINDOW)) /\ attempts < MAX_ALTERNATIVES

\* lines 263-268: one round of the while loop
Alternative(q) ==
    /\ spc = "recent" /\ draws_again
    /\ q \in available_questions(situational_history(cacheFile))
    /\ question' = q /\ source' = "bank"
    /\ attempts' = attempts + 1
    /\ UNCHANGED <<spc, history, attempt, scalls, cacheFile, outsideSitu>>

\* lines 270-282: the question is appended and the cache file written;
\* save_cache (lines 156-158) lets a failed write escape
StoreQuestion(written_ok) ==
    /\ spc = "recent" /\ ~draws_again
    /\ history' = last(Append(history, question), HISTORY_LIMIT)
    /\ IF written_ok
       THEN /\ cacheFile' = [situational_history |-> history'] @@ cacheFile
            /\ spc' = "returned"
       ELSE /\ cacheFile' = cacheFile
            /\ spc' = "raised"
    /\ UNCHANGED <<question, source, attempt, attempts, scalls, outsideSitu>>

InitSitu ==
    /\ NoCall /\ NormIdle /\ ConcIdle /\ SideIdle
    /\ cacheFile \in
          { [last_selection |-> LastSelection, sample_cache |-> EmptyDict,
             situational_history |-> h] : h \in Histories }

NextSitu ==
    \/ \E use_ai \in BOOLEAN : GenerateSituational(use_ai)
    \/ \E result \in AIResults : AIAttempt(result)
    \/ \E q \in Bank : BankFallback(q)
    \/ \E q \in Bank : Alternative(q)
    \/ \E written_ok \in BOOLEAN : StoreQuestion(written_ok)

SpecSitu == InitSitu /\ [][NextSitu]_vars /\ WF_vars(NextSitu)

\* the history the call found: its own entry is the last one
history_before == SubSeq(history, 1, Len(history) - 1)

\* the call is inside one of its loops or about to store
InCall == spc \in {"ai", "bank", "recent"}

(* C33, as stated: the question a call returns was not among the 10 most
   recent entries of the history before the call. *)
C33_NeverRecent ==
    spc = "returned" => question \notin Range(last(history_before, RECENT_WINDOW))

(* C33: a call makes at most max_retries AI attempts and at most 5
   alternative draws and then ends; the question it returns was not among
   the 10 most recent entries of the history before the call, unless the
   5 alternative draws are used up, which happens only for a bank question
   when every question of the day's category is among the 20 most recent
   entries. *)
C33_RecentOnlyWhenBankExhausted ==
    /\ [](attempt <= MAX_RETRIES /\ attempts <= MAX_ALTERNATIVES)
    /\ []((spc = "returned" /\ question \in Range(last(history_before, RECENT_WINDOW))) =>
              /\ attempts = MAX_ALTERNATIVES /\ source = "bank"
              /\ Bank \subseteq Range(last(history_before, BANK_WINDOW)))
    /\ [](spc = "returned" => question # None /\ history[Len(history)] = question)
    /\ (InCall ~> ~InCall)

\* a call returned a question of the last ten after five alternative draws
C33_Witness ==
    /\ spc = "returned" /\ attempts = MAX_ALTERNATIVES
    /\ question \in Range(last(history_before, RECENT_WINDOW))

----------------------------------------------------------------------------
(* get_generator (src/services/situational_gen.py, lines 13-54) called by
   the threads that serve GET /situational.  A generator is named by the
   number of the load that made it; 0 is None.  Whether a load succeeds is
   the environment. *)

MaxGenCalls == 2

outsideGen ==
    <<callVarsButCache, cacheFile, fetchVars, hookVars, rateVars, shareVars,
      apiVars, situVars>>

\* line 21 of thread t: `if generator is None`; the load of lines 22-33
\* begins, or the thread goes on to line 54
EnterGetGenerator(t) ==
    /\ callers[t].pc = "idle" /\ callers[t].ncalls < MaxGenCalls
    /\ IF generator = 0
       THEN /\ loads' = Append(loads, "running")
            /\ callers' = [callers EXCEPT ![t] = [@ EXCEPT !.pc = "loading",
                                                          !.load = Len(loads) + 1,
                                                          !.ncalls = @ + 1]]
       ELSE /\ loads' = loads
            /\ callers' = [callers EXCEPT ![t] = [@ EXCEPT !.pc = "return",
                                                          !.load = 0,
                                                          !.ncalls = @ + 1]]
    /\ UNCHANGED <<generator, outsideGen>>

\* lines 23-52 of thread t: the load ends and `generator` is assigned the
\* new generate_text, or None after an exception
EndLoad(t, ok) ==
    /\ callers[t].pc = "loading"
    /\ loads' = [loads EXCEPT ![callers[t].load] = IF ok THEN "ok" ELSE "failed"]
    /\ generator' = IF ok THEN callers[t].load ELSE 0
    /\ callers' = [callers EXCEPT ![t] = [@ EXCEPT !.pc = "return"]]
    /\ UNCHANGED outsideGen

\* line 54 of thread t: `return generator`
ReturnGenerator(t) ==
    /\ callers[t].pc = "return"
    /\ callers' = [callers EXCEPT ![t] = [@ EXCEPT !.pc = "idle", !.got = generator]]
    /\ UNCHANGED <<generator, loads, outsideGen>>

InitGen == InitRuns

NextGen ==
    \/ \E t \in GenThreads : EnterGetGenerator(t)
    \/ \E t \in GenThreads, ok \in BOOLEAN : EndLoad(t, ok)
    \/ \E t \in GenThreads : ReturnGenerator(t)

SpecGen == InitGen /\ [][NextGen]_vars

\* the loads that succeeded
Succeeded == {i \in 1..Len(loads) : loads[i] = "ok"}

(* C34: across every interleaving of calls of get_generator no load begins
   while another is running or after one has succeeded, so that the model
   is loaded at most once, and a call returns the generator of that one
   load or, when no load has succeeded, None. *)
C34_SingleInitialization ==
    /\ Cardinality({i \in 1..Len(loads) : loads[i] # "failed"}) <= 1
    /\ \A t \in GenThreads : callers[t].got # 0 => Succeeded = {callers[t].got}

----------------------------------------------------------------------------
(* POST /evaluate (src/services/api_wrapper.py, lines 70-102): the body is
   validated, evaluate_solution is called and its result is turned into an
   EvaluateResponse.  A field of the response that is None is left out of
   the record. *)

\* the fields of EvaluateResponse, lines 75-86
ResponseFields ==
    {"ok", "problem", "results", "summary", "compile_error", "error",
     "note", "message", "platform", "score"}

\* EvaluateResponse(**result): keys the schema does not name are ignored
EvaluateResponse_without_score(r) ==
    [f \in DOMAIN r \cap (ResponseFields \ {"score"}) |-> r[f]]
EvaluateResponse(r) == [f \in DOMAIN r \cap ResponseFields |-> r[f]]

\* what pydantic requires of the dict: ok is there and a bool, score an int
fits_schema(r) ==
    /\ "ok" \in DOMAIN r /\ r.ok \in BOOLEAN
    /\ "score" \in DOMAIN r => r.score \in Int

\* line 102
crashed(e) == [ok |-> FALSE, error |-> <<"Evaluator crashed: ", e>>]

\* the bodies sent to POST /evaluate
ApiRequests ==
    {"q1", "q2", "q5"} \X {CPP, <<"p","y">>, <<"c","o","b","o","l">>} \X {PlainCode, <<>>}

\* line 94: the handler calls evaluate_solution with the fields of the body
CallEvaluator ==
    /\ apc = "validated"
    /\ Receive(req.qkey, req.language, req.code)

\* lines 97-102: the result, or the exception, becomes the response
Answer ==
    /\ apc = "validated" /\ Ended
    /\ response' = IF pc = "raised" THEN crashed(exc)
                   ELSE IF fits_schema(ret) THEN EvaluateResponse(ret)
                   ELSE crashed("ValidationError")
    /\ apc' = "answered"
    /\ UNCHANGED <<req, outsideApi>>

NextApi ==
    \/ \E r \in ApiRequests : PostEvaluate(r[1], r[2], r[3])
    \/ CallEvaluator
    \/ \E readable \in BOOLEAN : LoadSelection(readable)
    \/ \E readable \in BOOLEAN, fetched \in SampleLists, writable \in BOOLEAN :
           FetchCodeforcesSamples(readable, fetched, writable)
    \/ \E readable \in BOOLEAN, fetched \in SampleLists, writable \in BOOLEAN :
           FetchLeetcodeSamples(readable, fetched, writable)
    \/ \E sfx \in DirSuffixes : MakeTmp(sfx)
    \/ \E o \in CompileOutcomes \cup BuildOutcomes(PYTHON) : Build(o)
    \/ \E o \in RunOutcomes : RunCase(o)
    \/ Finish
    \/ Answer

SpecApi == Init /\ [][NextApi]_vars

\* the fields of the response the caller reads the verdict from
VerdictFields == {"ok", "results", "summary", "score", "compile_error", "error"}

(* C35: the evaluator is called for validated requests only, and the
   response to one is an EvaluateResponse: ok=false with error populated
   when evaluate_solution raised, and otherwise ok, results, summary, score,
   compile_error and error as in the evaluator's result, each absent where
   the result has none. *)
C35_AlwaysEvaluateResponse ==
    /\ pc # "idle" => apc \in {"validated", "answered"}
    /\ apc = "answered" =>
          /\ Ended
          /\ DOMAIN response \subseteq ResponseFields
          /\ "ok" \in DOMAIN response /\ response.ok \in BOOLEAN
          /\ IF pc = "raised"
             THEN response.ok = FALSE /\ ErrorPopulated(response)
             ELSE \A f \in VerdictFields :
                    /\ f \in DOMAIN response <=> f \in DOMAIN ret
                    /\ f \in DOMAIN ret => response[f] = ret[f]

\* an exception of the evaluator was answered with ok=false and an error
C35_Witness ==
    /\ apc = "answered" /\ pc = "raised"
    /\ response = crashed("OSError")

====
